---------------------------- MODULE Spec2Model ----------------------------
(***************************************************************************)
(* A model of the <talking-timer> custom element (src/talking-timer.js):   *)
(* the notation parser, the offset/message generator, the schedule builder *)
(* (filterOffsets / sortOffsets) and the tick driven dispatcher with its   *)
(* click handlers.                                                         *)
(*                                                                         *)
(* Conventions                                                             *)
(*  - all times are whole milliseconds.  Durations are whole seconds, and  *)
(*    the durations and fractions drawn below are such that every quotient *)
(*    the generator forms is a whole number, so the JavaScript double      *)
(*    arithmetic of the source is exact on them.                           *)
(*  - a token of the `say' notation and the text of the `time' attribute   *)
(*    are sequences of one character strings; a notation is the sequence   *)
(*    of its whitespace separated tokens.                                  *)
(*  - a message is a string, built the way the source concatenates it.     *)
(*  - the `raw' field the source copies into some announcements is a       *)
(*    diagnostic copy of the token which no operation reads; it is left    *)
(*    out of the announcement records.                                     *)
(***************************************************************************)
EXTENDS Integers, Sequences, FiniteSets, TLC

(***************************************************************************)
(* Characters, digits and number <-> text conversions                      *)
(***************************************************************************)
Digits == <<"0", "1", "2", "3", "4", "5", "6", "7", "8", "9">>

UpperCase == <<"A", "B", "C", "D", "E", "F", "G", "H", "I", "J", "K", "L", "M",
               "N", "O", "P", "Q", "R", "S", "T", "U", "V", "W", "X", "Y", "Z">>

LowerCase == <<"a", "b", "c", "d", "e", "f", "g", "h", "i", "j", "k", "l", "m",
               "n", "o", "p", "q", "r", "s", "t", "u", "v", "w", "x", "y", "z">>

\* String.prototype.toLocaleLowerCase / the `i' flag of the regular expressions
toLocaleLowerCase(c) ==
    IF \E i \in 1..26 : UpperCase[i] = c
    THEN LowerCase[CHOOSE i \in 1..26 : UpperCase[i] = c]
    ELSE c

IsDigit(c) == \E i \in 1..10 : Digits[i] = c

DigitVal(c) == (CHOOSE i \in 1..10 : Digits[i] = c) - 1

\* the character of text t at position i (lower-cased), "" past its end
Ch(t, i) == IF i \in 1..Len(t) THEN toLocaleLowerCase(t[i]) ELSE ""

\* Number.parseInt(t[from .. to], 10) for a run of digits
RECURSIVE parseInt(_, _, _)
parseInt(t, from, to) ==
    IF to < from THEN 0
    ELSE 10 * parseInt(t, from, to - 1) + DigitVal(t[to])

\* Number.prototype.toString for a non-negative whole number
RECURSIVE toString(_)
toString(n) ==
    IF n < 10 THEN Digits[n + 1]
    ELSE toString(n \div 10) \o Digits[(n % 10) + 1]

\* Math.round for a non-negative quotient a / b
MathRound(a, b) == (2 * a + b) \div (2 * b)

\* the length of the run of characters in `class' that starts at position i
RECURSIVE RunLen(_, _, _)
RunLen(t, i, class) ==
    IF Ch(t, i) \in class THEN 1 + RunLen(t, i + 1, class) ELSE 0

DigitChars == {Digits[i] : i \in 1..10}

Max(S) == CHOOSE x \in S : \A y \in S : y <= x

(***************************************************************************)
(* Constants set by the constructor                                        *)
(***************************************************************************)
suffixes == [first |-> " gone.", last |-> " to go.", half |-> "Half way."]

multipliers == [hours |-> 3600000, minutes |-> 60000, seconds |-> 1000, tenths |-> 100]

\* this.pre: the lead table
pre == << [remaining |-> 10000, delay |-> 200],
          [remaining |-> 19999, delay |-> 600],
          [remaining |-> 86400, delay |-> 1200] >>

preSpeakStart == 2300

preSpeakEnd == 3300

chimeDelay == 5000

intervalTime == 20

\* "1/2 30s last20 last15 allLast10"
sayDefault == << <<"1", "/", "2">>, <<"3", "0", "s">>,
                 <<"l", "a", "s", "t", "2", "0">>,
                 <<"l", "a", "s", "t", "1", "5">>,
                 <<"a", "l", "l", "L", "a", "s", "t", "1", "0">> >>

\* the window of tooClose(), the threshold under which filterOffsets() exempts
\* an offset from it, and the staleness guard of progressTickTock()
CloseWindow == 5000

DenseBelow == 30000

StaleAfter == 2000

(***************************************************************************)
(* The token grammar of parseRawIntervals(), line 1323.  Its parts, in     *)
(* order, each optional part followed by an optional separator [_-]:       *)
(*   g1  all | every                      (optional)                       *)
(*   g2  one or more digits               (optional)                       *)
(*   g3  last | first                     (optional)                       *)
(*   then either  g4 a number without leading 0, [_-]?, g5 one of s m h    *)
(*                   (g5 may be empty)                                     *)
(*        or      g6 a digit 1-9 (optional), [_-]?, "1/", g7 2..9 or 10    *)
(* The expression is anchored to whitespace or the ends of the text on     *)
(* both sides, so that a match is a whole token, and it ignores case.      *)
(* The matcher follows the backtracking order of the regular expression:   *)
(* every optional part is tried present first, a repetition longest first. *)
(* Undefined marks a group that took no part in the match.                 *)
(***************************************************************************)
Undefined == -1

NoMatch == [ok |-> FALSE, g1 |-> "", g2 |-> Undefined, g3 |-> "",
            g4 |-> Undefined, g5 |-> "", g7 |-> Undefined]

\* the position after the optional separator
Sep(t, i) == IF Ch(t, i) \in {"_", "-"} THEN i + 1 ELSE i

\* does the (lower-cased) text w stand at position i of t
StartsWith(t, i, w) == \A k \in 1..Len(w) : Ch(t, i + k - 1) = w[k]

\* the first of two attempts to match that succeeds
OrElse(first, second) == IF first.ok THEN first ELSE second

\* the match m with group g set to v; no match unless the optional word that
\* was tried is there
WithGroup(m, g, v) == IF m.ok THEN [m EXCEPT ![g] = v] ELSE m

IfWord(word, m) == IF word = "" THEN NoMatch ELSE m

\* g5 at position e: the unit letter, or "" when there is none
UnitAt(t, e) == IF Ch(t, e) \in {"s", "m", "h"} THEN Ch(t, e) ELSE ""

\* g4 is the n digits at p; the separator, g5 and the end of the token follow
TimeAt(t, p, n) ==
    IF /\ n >= 1
       /\ Ch(t, p) # "0"
       /\ Sep(t, p + n) + (IF UnitAt(t, Sep(t, p + n)) = "" THEN 0 ELSE 1) = Len(t) + 1
    THEN [NoMatch EXCEPT !.ok = TRUE, !.g4 = parseInt(t, p, p + n - 1),
                         !.g5 = UnitAt(t, Sep(t, p + n))]
    ELSE NoMatch

\* g4, separator, g5: the time alternative, up to the end of the token
MatchTime(t, p) == TimeAt(t, p, RunLen(t, p, DigitChars))

\* "1/" and g7 up to the end of the token: the denominator, or Undefined
FractionAt(t, q) ==
    IF Ch(t, q) = "1" /\ Ch(t, q + 1) = "/"
    THEN IF Ch(t, q + 2) \in (DigitChars \ {"0", "1"}) /\ q + 3 = Len(t) + 1
         THEN DigitVal(Ch(t, q + 2))
         ELSE IF Ch(t, q + 2) = "1" /\ Ch(t, q + 3) = "0" /\ q + 4 = Len(t) + 1
              THEN 10
              ELSE Undefined
    ELSE Undefined

\* the match of a fraction with denominator d
FractionMatch(d) ==
    IF d # Undefined THEN [NoMatch EXCEPT !.ok = TRUE, !.g7 = d] ELSE NoMatch

\* g6, separator, "1/", g7: the fraction alternative, up to the end of the
\* token, first with a digit for g6 and then without
MatchFraction(t, p) ==
    OrElse(FractionMatch(IF Ch(t, p) \in (DigitChars \ {"0"})
                         THEN FractionAt(t, Sep(t, p + 1))
                         ELSE Undefined),
           FractionMatch(FractionAt(t, Sep(t, p))))

\* the time alternative, else the fraction alternative
MatchAlternatives(t, p) == OrElse(MatchTime(t, p), MatchFraction(t, p))

\* g3 at position p: "last", "first", or "" when neither stands there
FirstLastAt(t, p) ==
    IF StartsWith(t, p, <<"l", "a", "s", "t">>) THEN "last"
    ELSE IF StartsWith(t, p, <<"f", "i", "r", "s", "t">>) THEN "first"
    ELSE ""

\* the rest of the token after the word that is g3
AfterFirstLast(t, p, word) ==
    IfWord(word, WithGroup(MatchAlternatives(t, Sep(t, p + Len(word))), "g3", word))

\* g3, separator and the rest: first with the word, then without
MatchFirstLast(t, p) ==
    OrElse(AfterFirstLast(t, p, FirstLastAt(t, p)), MatchAlternatives(t, Sep(t, p)))

\* the match in which g2 is the k digits at p (no g2 when k = 0)
MultiplierAt(t, p, k) ==
    WithGroup(MatchFirstLast(t, Sep(t, p + k)), "g2",
              IF k = 0 THEN Undefined ELSE parseInt(t, p, p + k - 1))

\* the match with the most digits for g2 among the counts Ks that match
Longest(t, p, Ks) == IF Ks = {} THEN NoMatch ELSE MultiplierAt(t, p, Max(Ks))

\* g2, separator and the rest: the longest run of digits that lets the rest
\* match, and no g2 when no run does
MatchMultiplier(t, p) ==
    Longest(t, p, {k \in 0..RunLen(t, p, DigitChars) : MultiplierAt(t, p, k).ok})

\* g1 at the start of the token: "all", "every", or ""
AllEveryAt(t) ==
    IF StartsWith(t, 1, <<"a", "l", "l">>) THEN "all"
    ELSE IF StartsWith(t, 1, <<"e", "v", "e", "r", "y">>) THEN "every"
    ELSE ""

\* the rest of the token after the word that is g1
AfterAllEvery(t, word) ==
    IfWord(word, WithGroup(MatchMultiplier(t, Sep(t, 1 + Len(word))), "g1", word))

\* regex.exec on one token: first with g1, then without
MatchToken(t) == OrElse(AfterAllEvery(t, AllEveryAt(t)), MatchMultiplier(t, Sep(t, 1)))

\* IntervalOf() in which only a written "all" makes a directive symmetric
IntervalOfAllOnlyWhenWritten(m) ==
    LET every      == (m.g1 = "every" /\ m.g3 # "")
        all        == (m.g1 = "all")
        multiplier == IF m.g2 # Undefined THEN m.g2 ELSE 1
        isFraction == (m.g7 # Undefined)
    IN  [all         |-> (all /\ ~every),
         every       |-> every,
         multiplier  |-> IF every \/ all THEN 0 ELSE multiplier,
         relative    |-> m.g3,
         isFraction  |-> isFraction,
         denominator |-> IF isFraction THEN m.g7 ELSE 0,
         unit        |-> IF isFraction THEN "" ELSE m.g5,
         time        |-> IF isFraction THEN 0 ELSE m.g4]

\* the interval object parseRawIntervals() builds from one match
IntervalOf(m) ==
    LET allEvery   == m.g1
        firstLast  == m.g3
        all        == (allEvery = "all" \/ firstLast = "")
        every      == (allEvery = "every" /\ firstLast # "")
        multiplier == IF m.g2 # Undefined THEN m.g2 ELSE 1
        mult2      == IF every \/ all THEN 0 ELSE multiplier
        isFraction == (m.g7 # Undefined)
        denom      == IF isFraction THEN m.g7 ELSE 0
    IN  [all         |-> (all /\ ~every),
         every       |-> every,
         multiplier  |-> IF isFraction /\ mult2 > denom - 1 THEN denom - 1 ELSE mult2,
         relative    |-> firstLast,
         isFraction  |-> isFraction,
         denominator |-> denom,
         unit        |-> IF isFraction THEN "" ELSE m.g5,
         time        |-> IF isFraction THEN 0 ELSE m.g4]

(***************************************************************************)
(* Message formatter and small numeric helpers                             *)
(***************************************************************************)
posMinus(a, b) == IF a > b THEN a - b ELSE b - a

\* tooClose() that looks below the previous value only
tooCloseBelowOnly(current, previous) ==
    current > (previous - CloseWindow) /\ current < previous

tooClose(current, previous) ==
    current > (previous - CloseWindow) /\ current < (previous + CloseWindow)

\* previous is the sequence of offsets seen so far
tooCloseAny(offset, previous) ==
    \E a \in 1..Len(previous) : tooClose(offset, previous[a])

Plural(n) == IF n > 1 THEN "s" ELSE ""

\* makeTimeMessage() that gives 10 seconds its unit word
makeTimeMessageUnitFromTen(offset, suffix, forceSufix) ==
    IF offset < 20000
    THEN toString(MathRound(offset, 1000))
         \o (IF forceSufix THEN " seconds" \o suffix
             ELSE IF offset >= 10000 THEN " seconds" ELSE "")
    ELSE toString(MathRound(offset, 1000)) \o " seconds" \o suffix

\* makeTimeMessage(offset, suffix, forceSufix)
makeTimeMessage(offset, suffix, forceSufix) ==
    IF offset < 20000
    THEN LET tmpSuffix == IF forceSufix THEN " seconds" \o suffix
                          ELSE IF offset > 10000 THEN " seconds" ELSE ""
         IN  toString(MathRound(offset, 1000)) \o tmpSuffix
    ELSE LET hours    == offset \div 3600000
             hasHours == offset >= 3600000
             working1 == IF hasHours THEN offset - hours * 3600000 ELSE offset
             output1  == IF hasHours THEN toString(hours) \o " hour" \o Plural(hours) ELSE ""
             comma1   == IF hasHours THEN ", " ELSE ""
             minutes  == working1 \div 60000
             hasMins  == working1 >= 60000
             working2 == IF hasMins THEN working1 - minutes * 60000 ELSE working1
             \* line 1637 assigns (=) where the hours part used +=
             output2  == IF hasMins
                         THEN comma1 \o toString(minutes) \o " minute" \o Plural(minutes)
                         ELSE output1
             comma2   == IF hasMins THEN ", " ELSE comma1
             seconds  == MathRound(working2, 1000)
             output3  == IF seconds > 0
                         THEN output2 \o comma2 \o toString(seconds) \o " second" \o Plural(seconds)
                         ELSE output2
         IN  output3 \o suffix

\* makeFractionMessage(numerator, denominator)
makeFractionMessage(numerator, denominator) ==
    LET newDenominator == IF denominator % numerator = 0
                          THEN denominator \div numerator
                          ELSE denominator
        fraction == CASE newDenominator = 3  -> "third"
                      [] newDenominator = 4  -> "quarter"
                      [] newDenominator = 5  -> "fifth"
                      [] newDenominator = 6  -> "sixth"
                      [] newDenominator = 7  -> "seventh"
                      [] newDenominator = 8  -> "eighth"
                      [] newDenominator = 9  -> "ninth"
                      [] newDenominator = 10 -> "tenth"
                      [] OTHER -> ""
        newNumerator == numerator \div (denominator \div newDenominator)
    IN  IF newDenominator = 2 THEN suffixes.half
        ELSE toString(newNumerator) \o " " \o fraction \o Plural(newNumerator)

(***************************************************************************)
(* Offset generator.  An announcement is [offset, message].                *)
(***************************************************************************)
Announcement(o, m) == [offset |-> o, message |-> m]

\* getFractionOffsetAndMessage(), relative branch: a = from .. count
RECURSIVE FractionRelative(_, _, _, _, _)
FractionRelative(a, count, interval, intervalObj, milliseconds) ==
    IF a > count THEN <<>>
    ELSE LET suffix == IF intervalObj.relative = "first" THEN suffixes.first
                       ELSE suffixes.last
             minus  == IF intervalObj.relative = "first" THEN milliseconds ELSE 0
         IN  << Announcement(posMinus(minus, interval * a),
                             makeFractionMessage(a, intervalObj.denominator) \o suffix) >>
             \o FractionRelative(a + 1, count, interval, intervalObj, milliseconds)

\* getFractionOffsetAndMessage(), symmetric branch: a = from .. count / 2
RECURSIVE FractionSymmetric(_, _, _, _, _)
FractionSymmetric(a, count, interval, intervalObj, milliseconds) ==
    IF 2 * a > count THEN <<>>
    ELSE LET message == makeFractionMessage(a, intervalObj.denominator)
         IN  << Announcement(milliseconds - (interval * a), message \o suffixes.last),
                Announcement(interval * a, message \o suffixes.first) >>
             \o FractionSymmetric(a + 1, count, interval, intervalObj, milliseconds)

\* the closing map of getFractionOffsetAndMessage()
CollapseToHalf(offsets, half) ==
    [i \in 1..Len(offsets) |->
        IF tooClose(offsets[i].offset, half)
        THEN Announcement(half, suffixes.half)
        ELSE offsets[i]]

\* getFractionOffsetAndMessage() without the early return for denominator 2
getFractionOffsetAndMessageNoHalfCase(intervalObj, milliseconds) ==
    LET interval == milliseconds \div intervalObj.denominator
        count    == IF intervalObj.multiplier = 0
                       \/ intervalObj.multiplier >= intervalObj.denominator
                    THEN intervalObj.denominator
                    ELSE intervalObj.multiplier
    IN  CollapseToHalf(
            IF intervalObj.relative # ""
            THEN FractionRelative(1, count, interval, intervalObj, milliseconds)
            ELSE FractionSymmetric(1, count, interval, intervalObj, milliseconds),
            milliseconds \div 2)

getFractionOffsetAndMessage(intervalObj, milliseconds) ==
    LET half     == milliseconds \div 2
        interval == milliseconds \div intervalObj.denominator
        count    == IF intervalObj.multiplier = 0
                       \/ intervalObj.multiplier >= intervalObj.denominator
                    THEN intervalObj.denominator
                    ELSE intervalObj.multiplier
        offsets  == IF intervalObj.relative # ""
                    THEN FractionRelative(1, count, interval, intervalObj, milliseconds)
                    ELSE FractionSymmetric(1, count, interval, intervalObj, milliseconds)
    IN  IF intervalObj.denominator = 2
        THEN << Announcement(half, "Half way") >>
        ELSE CollapseToHalf(offsets, half)

\* for (offset = interval; offset <= half; offset += interval): the pairs.
\* The loop runs `rounds' times; its k-th round is at offset + (k - 1) * interval
TimeSymmetric(offset, interval, half, milliseconds) ==
    LET rounds == IF offset > half THEN 0 ELSE ((half - offset) \div interval) + 1
        at(k)  == offset + (k - 1) * interval
    IN  IF rounds = 0 THEN <<>>
        ELSE [i \in 1..(2 * rounds) |->
                IF i % 2 = 1
                THEN Announcement(at((i + 1) \div 2),
                                  makeTimeMessage(at((i + 1) \div 2), suffixes.last, FALSE))
                ELSE Announcement(milliseconds - at(i \div 2),
                                  makeTimeMessage(at(i \div 2), suffixes.first, FALSE))]

\* for (a = count; a > 0; a -= 1) with offset = a * interval.  count may be
\* the fraction milliseconds / interval; the walk is then over
\* rest = a * interval = count * interval, count * interval - interval, ...
\* as long as rest > 0: `rounds' times
TimeRelative(rest, interval, modifier, suffix, forceSufix) ==
    LET rounds == IF rest <= 0 THEN 0 ELSE ((rest - 1) \div interval) + 1
        at(k)  == rest - (k - 1) * interval
    IN  IF rounds = 0 THEN <<>>
        ELSE [k \in 1..rounds |->
                Announcement(posMinus(modifier, at(k)),
                             makeTimeMessage(at(k), suffix, forceSufix))]

\* the multiplier loop as a loop that tests its bound after the first round
TimeMultipliedAtLeastOnce(offset, interval, bound, modifier, suffix) ==
    << Announcement(posMinus(modifier, offset),
                    makeTimeMessage(offset, suffix, FALSE)) >>

\* for (offset = interval; offset <= intervalObj.time; offset += interval)
RECURSIVE TimeMultiplied(_, _, _, _, _)
TimeMultiplied(offset, interval, bound, modifier, suffix) ==
    IF offset > bound THEN <<>>
    ELSE << Announcement(posMinus(modifier, offset),
                         makeTimeMessage(offset, suffix, FALSE)) >>
         \o TimeMultiplied(offset + interval, interval, bound, modifier, suffix)

getTimeOffsetAndMessage(intervalObj, milliseconds) ==
    LET suffix == IF intervalObj.relative = "first" THEN suffixes.first ELSE suffixes.last
        allOrEvery == intervalObj.all \/ intervalObj.every
    IN  IF allOrEvery \/ intervalObj.multiplier > 1
        THEN IF allOrEvery /\ intervalObj.multiplier <= 1
             THEN IF intervalObj.relative = ""
                  THEN TimeSymmetric(intervalObj.time * 1000, intervalObj.time * 1000,
                                     milliseconds \div 2, milliseconds)
                  ELSE LET unitMs   == CASE intervalObj.unit = "m" -> 60000
                                         [] intervalObj.unit = "h" -> 3600000
                                         [] OTHER -> 1000
                           interval == IF intervalObj.every THEN unitMs * intervalObj.time
                                       ELSE unitMs
                           \* count * interval
                           total    == IF intervalObj.every THEN milliseconds
                                       ELSE intervalObj.time * interval
                           modifier == IF intervalObj.relative # "first" THEN 0
                                       ELSE milliseconds
                       IN  TimeRelative(total, interval, modifier, suffix,
                                        intervalObj.relative = "first")
             ELSE LET unit     == IF intervalObj.unit = "s" THEN 10000
                                  ELSE IF intervalObj.unit = "m" THEN 60000
                                  ELSE 3600000
                      interval == intervalObj.time * unit
                      modifier == IF intervalObj.relative = "last" THEN 0 ELSE milliseconds
                  IN  TimeMultiplied(interval, interval, intervalObj.time, modifier, suffix)
        ELSE LET interval == intervalObj.time * 1000
                 offset   == IF intervalObj.relative # "first" THEN interval
                             ELSE milliseconds - interval
             IN  << Announcement(offset, makeTimeMessage(interval, suffix, FALSE)) >>

(***************************************************************************)
(* Schedule builder                                                        *)
(***************************************************************************)
\* Accepts() with the exemption on the wrong side of the threshold
AcceptsExemptAbove(item, found, max) ==
    /\ \A a \in 1..Len(found) : found[a] # item.offset
    /\ (item.offset >= DenseBelow \/ ~tooCloseAny(item.offset, found))
    /\ item.offset < max
    /\ item.offset > 0

\* the predicate of the filter callback of filterOffsets(): found is the
\* sequence of the offsets accepted so far
Accepts(item, found, max) ==
    /\ \A a \in 1..Len(found) : found[a] # item.offset
    /\ (item.offset <= DenseBelow \/ ~tooCloseAny(item.offset, found))
    /\ item.offset < max
    /\ item.offset > 0

\* the filter callback of filterOffsets() over offsets[lo .. hi], one item after
\* the other: acc holds `found' and the items kept before lo.  The range is
\* walked by halves, the first half before the second
RECURSIVE FilterRange(_, _, _, _, _)
FilterRange(offsets, lo, hi, acc, max) ==
    IF lo > hi THEN acc
    ELSE IF lo = hi
         THEN IF Accepts(offsets[lo], acc.found, max)
              THEN [found  |-> Append(acc.found, offsets[lo].offset),
                    output |-> Append(acc.output, offsets[lo])]
              ELSE acc
         ELSE CHOOSE last \in
                  {FilterRange(offsets, ((lo + hi) \div 2) + 1, hi, first, max) :
                      first \in {FilterRange(offsets, lo, (lo + hi) \div 2, acc, max)}} :
                  TRUE

\* the value of `found' after the first n items of offsets went through the filter
FoundAfter(offsets, n, max) ==
    FilterRange(offsets, 1, n, [found |-> <<>>, output |-> <<>>], max).found

\* is item i of offsets kept by the filter
Kept(offsets, i, max) == Accepts(offsets[i], FoundAfter(offsets, i - 1, max), max)

\* FilterRange() that records in `found' every offset it sees, kept or not
RECURSIVE FilterRangeRecordsAll(_, _, _, _, _)
FilterRangeRecordsAll(offsets, lo, hi, acc, max) ==
    IF lo > hi THEN acc
    ELSE IF lo = hi
         THEN [found  |-> Append(acc.found, offsets[lo].offset),
               output |-> IF Accepts(offsets[lo], acc.found, max)
                          THEN Append(acc.output, offsets[lo])
                          ELSE acc.output]
         ELSE CHOOSE last \in
                  {FilterRangeRecordsAll(offsets, ((lo + hi) \div 2) + 1, hi, first, max) :
                      first \in {FilterRangeRecordsAll(offsets, lo, (lo + hi) \div 2,
                                                        acc, max)}} :
                  TRUE

\* the filter, recording in `found' every offset it sees, kept or not
FilterFromRecordsAll(offsets, i, found, max) ==
    FilterRangeRecordsAll(offsets, i, Len(offsets),
                          [found |-> found, output |-> <<>>], max).output

\* the items the filter keeps of offsets[i ..], given the offsets in `found'
FilterFrom(offsets, i, found, max) ==
    FilterRange(offsets, i, Len(offsets), [found |-> found, output |-> <<>>], max).output

filterOffsets(offsets, max) == FilterFrom(offsets, 1, <<>>, max)

\* the comparator with its two results exchanged
BeforeAscending(a, b) == a.offset < b.offset

\* the comparator of sortOffsets(): a is to stand before b
Before(a, b) == a.offset > b.offset

\* Array.prototype.sort with that comparator: an item stands after the items
\* that are to stand before it, and after the equal ones that came before it
sortOffsets(input) ==
    LET n == Len(input)
        place == [i \in 1..n |->
                    1 + Cardinality({j \in 1..n :
                           \/ Before(input[j], input[i])
                           \/ (~Before(input[i], input[j]) /\ j < i)})]
    IN  [k \in 1..n |-> input[CHOOSE i \in 1..n : place[i] = k]]

\* the announcements of one interval object
OffsetsOfInterval(intervalObj, durationMilli) ==
    IF intervalObj.isFraction
    THEN getFractionOffsetAndMessage(intervalObj, durationMilli)
    ELSE getTimeOffsetAndMessage(intervalObj, durationMilli)

\* the announcements of one match m for the list of the kinds in `kinds'
\* (isFraction TRUE, FALSE): none when there is no match or it is of another kind
OffsetsOfMatch(m, durationMilli, kinds) ==
    IF m.ok /\ (m.g7 # Undefined) \in kinds
    THEN OffsetsOfInterval(IntervalOf(m), durationMilli)
    ELSE <<>>

\* IntervalsOfKind() that gives up at the first token that is no directive
RECURSIVE IntervalsOfKindStopsAtMismatch(_, _, _)
IntervalsOfKindStopsAtMismatch(rawIntervals, durationMilli, kinds) ==
    IF rawIntervals = <<>> \/ ~MatchToken(Head(rawIntervals)).ok THEN <<>>
    ELSE OffsetsOfMatch(MatchToken(Head(rawIntervals)), durationMilli, kinds)
         \o IntervalsOfKindStopsAtMismatch(Tail(rawIntervals), durationMilli, kinds)

\* the announcements of the tokens of the kinds in `kinds', in token order:
\* fractionIntervals is of kind TRUE, timeIntervals of kind FALSE and
\* orderIntervals of both
RECURSIVE IntervalsOfKind(_, _, _)
IntervalsOfKind(rawIntervals, durationMilli, kinds) ==
    IF rawIntervals = <<>> THEN <<>>
    ELSE OffsetsOfMatch(MatchToken(Head(rawIntervals)), durationMilli, kinds)
         \o IntervalsOfKind(Tail(rawIntervals), durationMilli, kinds)

\* the two lists in the order the priority puts them
Concat(priority, fractionIntervals, timeIntervals) ==
    IF priority = "time" THEN timeIntervals \o fractionIntervals
    ELSE fractionIntervals \o timeIntervals

\* `output' of parseRawIntervals(): the raw announcements in the order they are
\* fed to the filter
RawOutput(rawIntervals, durationMilli, priority) ==
    IF priority = "order" THEN IntervalsOfKind(rawIntervals, durationMilli, {TRUE, FALSE})
    ELSE Concat(priority, IntervalsOfKind(rawIntervals, durationMilli, {TRUE}),
                          IntervalsOfKind(rawIntervals, durationMilli, {FALSE}))

\* parseRawIntervals() that takes the empty notation for a missing one
parseRawIntervalsDefaultForEmpty(rawIntervals, durationMilli, priority) ==
    sortOffsets(filterOffsets(
        RawOutput(IF rawIntervals = <<>> THEN sayDefault ELSE rawIntervals,
                  durationMilli, priority),
        durationMilli))

\* parseRawIntervals(rawIntervals, durationMilli) under this.config.priority
parseRawIntervals(rawIntervals, durationMilli, priority) ==
    IF rawIntervals = <<>> THEN <<>>
    ELSE sortOffsets(filterOffsets(RawOutput(rawIntervals, durationMilli, priority),
                                   durationMilli))

(***************************************************************************)
(* Time codec                                                              *)
(***************************************************************************)
\* the value of every field of millisecondsToTimeObj(undefined)
NaN == -2

TimeObj(h, m, s, t) == [hours |-> h, minutes |-> m, seconds |-> s, tenths |-> t]

\* getWholePart(input, multiplier)
getWholePart(input, multiplier) ==
    [whole |-> input \div multiplier,
     part  |-> input - ((input \div multiplier) * multiplier)]

millisecondsToTimeObj(milliseconds) ==
    LET h == getWholePart(milliseconds, multipliers.hours)
        m == getWholePart(h.part, multipliers.minutes)
        s == getWholePart(m.part, multipliers.seconds)
        t == getWholePart(s.part, multipliers.tenths)
    IN  TimeObj(h.whole, m.whole, s.whole, t.whole)

\* timeObjToMilliseconds that leaves the tenths out
timeObjToMillisecondsWithoutTenths(timeObj) ==
    timeObj.seconds * multipliers.seconds
    + timeObj.minutes * multipliers.minutes
    + timeObj.hours * multipliers.hours

\* timeObjToMilliseconds(timeObj): a missing tenths field counts as 0
timeObjToMilliseconds(timeObj) ==
    (IF timeObj.tenths = Undefined THEN 0 ELSE timeObj.tenths * multipliers.tenths)
    + timeObj.seconds * multipliers.seconds
    + timeObj.minutes * multipliers.minutes
    + timeObj.hours * multipliers.hours

AllDigits(t, from, to) == \A i \in from..to : IsDigit(t[i])

\* one digit, or two digits 00..59
IsSixtyField(t, from, to) ==
    /\ to - from \in {0, 1}
    /\ AllDigits(t, from, to)
    /\ (to - from = 1 => DigitVal(t[from]) <= 5)

\* one digit, or two digits 00..24
IsHoursField(t, from, to) ==
    /\ to - from \in {0, 1}
    /\ AllDigits(t, from, to)
    /\ (to - from = 1 =>
           \/ DigitVal(t[from]) <= 1
           \/ (DigitVal(t[from]) = 2 /\ DigitVal(t[to]) <= 4))

\* 60..99, or 3 to 6 digits without leading 0
IsSecondCount(t) ==
    /\ Len(t) \in 2..6
    /\ AllDigits(t, 1, Len(t))
    /\ IF Len(t) = 2 THEN DigitVal(t[1]) >= 6 ELSE DigitVal(t[1]) >= 1

\* regex.exec(hoursMinutesSeconds) of validateTimeDuration(): the groups as numbers
MatchDuration(t) ==
    LET colons == {i \in 1..Len(t) : t[i] = ":"}
        none   == [ok |-> FALSE, g1 |-> Undefined, g2 |-> Undefined,
                   g3 |-> Undefined, g4 |-> Undefined]
        n      == Len(t)
    IN  IF Cardinality(colons) = 0
        THEN IF n >= 1 /\ IsSixtyField(t, 1, n)
             THEN [none EXCEPT !.ok = TRUE, !.g3 = parseInt(t, 1, n)]
             ELSE IF IsSecondCount(t)
                  THEN [none EXCEPT !.ok = TRUE, !.g4 = parseInt(t, 1, n)]
                  ELSE none
        ELSE IF Cardinality(colons) = 1
        THEN LET c == Max(colons)
             IN  IF IsSixtyField(t, 1, c - 1) /\ IsSixtyField(t, c + 1, n)
                 THEN [none EXCEPT !.ok = TRUE, !.g2 = parseInt(t, 1, c - 1),
                                   !.g3 = parseInt(t, c + 1, n)]
                 ELSE none
        ELSE IF Cardinality(colons) = 2
        THEN LET c2 == Max(colons)
                 c1 == Max(colons \ {c2})
             IN  IF /\ IsHoursField(t, 1, c1 - 1)
                    /\ IsSixtyField(t, c1 + 1, c2 - 1)
                    /\ IsSixtyField(t, c2 + 1, n)
                 THEN [none EXCEPT !.ok = TRUE, !.g1 = parseInt(t, 1, c1 - 1),
                                   !.g2 = parseInt(t, c1 + 1, c2 - 1),
                                   !.g3 = parseInt(t, c2 + 1, n)]
                 ELSE none
        ELSE none

(***************************************************************************)
(* State.  The fields of the element, the browser side of its timers and   *)
(* outputs, and two counters that only observe.                            *)
(***************************************************************************)
VARIABLES
    initialValue,           \* this.initialValue
    currentValue,           \* this.currentValue
    endTime,                \* this.endTime (0: not anchored)
    initialMilliseconds,    \* this.initialMilliseconds
    remainingMilliseconds,  \* this.remainingMilliseconds
    config,                 \* this.config (the keys the handlers read)
    play,                   \* this.play
    progressTicker,         \* this.progressTicker (NoTimer: null)
    say,                    \* this.say, as its sequence of tokens
    sayIntervals,           \* this.sayIntervals: the canonical schedule
    workingIntervals,       \* this.workingIntervals: the working schedule
    endText,                \* this.endText
    startText,              \* this.startText
    finished,               \* this.numbers.classList contains 'finished'
    dom,                    \* "constructed", "connected" or "removed"
    listening,              \* the click listeners are attached
    now,                    \* Date.now()
    intervals,              \* ids of the live window.setInterval timers
    timeouts,               \* pending window.setTimeout calls: [fn, due, id]
    sink,                   \* outputs so far: [kind |-> "say" | "chime", text]
    clicks,                 \* observer: click events dispatched so far
    endPlayed,              \* observer: calls of endPlaying() so far
    endDelays               \* this.preSpeakEnd and this.chimeDelay

vars == << initialValue, currentValue, endTime, initialMilliseconds,
           remainingMilliseconds, config, play, progressTicker, say, sayIntervals,
           workingIntervals, endText, startText, finished, dom, listening, now,
           intervals, timeouts, sink, clicks, endPlayed, endDelays >>

\* the state as one record, so that a handler is a function from state to state
Cur ==
    [initialValue |-> initialValue, currentValue |-> currentValue,
     endTime |-> endTime, initialMilliseconds |-> initialMilliseconds,
     remainingMilliseconds |-> remainingMilliseconds, config |-> config,
     play |-> play, progressTicker |-> progressTicker, say |-> say,
     sayIntervals |-> sayIntervals, workingIntervals |-> workingIntervals,
     endText |-> endText, startText |-> startText, finished |-> finished,
     dom |-> dom, listening |-> listening, now |-> now, intervals |-> intervals,
     timeouts |-> timeouts, sink |-> sink, clicks |-> clicks,
     endPlayed |-> endPlayed, endDelays |-> endDelays]

\* the next state is s; s is computed once
Becomes(s) ==
    \E next \in {s} :
        /\ initialValue' = next.initialValue
        /\ currentValue' = next.currentValue
        /\ endTime' = next.endTime
        /\ initialMilliseconds' = next.initialMilliseconds
        /\ remainingMilliseconds' = next.remainingMilliseconds
        /\ config' = next.config
        /\ play' = next.play
        /\ progressTicker' = next.progressTicker
        /\ say' = next.say
        /\ sayIntervals' = next.sayIntervals
        /\ workingIntervals' = next.workingIntervals
        /\ endText' = next.endText
        /\ startText' = next.startText
        /\ finished' = next.finished
        /\ dom' = next.dom
        /\ listening' = next.listening
        /\ now' = next.now
        /\ intervals' = next.intervals
        /\ timeouts' = next.timeouts
        /\ sink' = next.sink
        /\ clicks' = next.clicks
        /\ endPlayed' = next.endPlayed
        /\ endDelays' = next.endDelays

\* this.progressTicker = null
NoTimer == 0

\* the first instant of the model's clock
Epoch == 1000

\* the constructor, but for the two delays it reads from
\* talkingTimerExternalDefaults
Constructed ==
    /\ initialValue = TimeObj(0, 0, 0, Undefined)
    /\ currentValue = TimeObj(0, 0, 0, 0)
    /\ endTime = 0
    /\ initialMilliseconds = 0
    /\ remainingMilliseconds = 0
    /\ config = [autoDestruct |-> -1, autoReset |-> FALSE, noCloseBtn |-> FALSE,
                 noEndChime |-> FALSE, noSayEnd |-> FALSE, sayStart |-> FALSE,
                 priority |-> "fraction"]
    /\ play = FALSE
    /\ progressTicker = NoTimer
    /\ say = <<>>
    /\ sayIntervals = <<>>
    /\ workingIntervals = <<>>
    /\ endText = "Time's up!"
    /\ startText = "Ready. Set. Go!"
    /\ finished = FALSE
    /\ dom = "constructed"
    /\ listening = FALSE
    /\ now = Epoch
    /\ intervals = {}
    /\ timeouts = {}
    /\ sink = <<>>
    /\ clicks = 0
    /\ endPlayed = 0

\* the constructor on a page that defines no talkingTimerExternalDefaults
Init ==
    /\ Constructed
    /\ endDelays = [preSpeakEnd |-> preSpeakEnd, chimeDelay |-> chimeDelay]

(***************************************************************************)
(* Handlers, as functions from state to state                              *)
(***************************************************************************)
\* the id the browser gives the next timer: ids grow, so that of two live
\* timers the one with the larger id was set later
FreshId(s) ==
    LET used == s.intervals \cup {t.id : t \in s.timeouts} \cup {s.progressTicker, NoTimer}
    IN  1 + CHOOSE i \in used : \A j \in used : j <= i

\* window.setTimeout(fn, delay)
setTimeout(s, fn, delay) ==
    [s EXCEPT !.timeouts = @ \cup {[fn |-> fn, due |-> s.now + delay, id |-> FreshId(s)]}]

\* saySomething(text)
saySomething(s, text) ==
    [s EXCEPT !.sink = Append(@, [kind |-> "say", text |-> text])]

\* getSpeakPreOffset that takes the last band that covers the remaining time
getSpeakPreOffsetWidestBand(timeRemaining) ==
    LET hits == {a \in 1..Len(pre) : timeRemaining <= pre[a].remaining}
    IN  IF hits # {} THEN pre[CHOOSE a \in hits : \A b \in hits : a >= b].delay
        ELSE pre[Len(pre)].delay

\* getSpeakPreOffset whose lead times are ten times those of this.pre
getSpeakPreOffsetTenfold(timeRemaining) ==
    LET hits == {a \in 1..Len(pre) : timeRemaining <= pre[a].remaining}
    IN  IF hits # {} THEN 10 * pre[CHOOSE a \in hits : \A b \in hits : a <= b].delay
        ELSE 10 * pre[Len(pre)].delay

\* getSpeakPreOffset(timeRemaining)
getSpeakPreOffset(timeRemaining) ==
    LET hits == {a \in 1..Len(pre) : timeRemaining <= pre[a].remaining}
    IN  IF hits # {} THEN pre[CHOOSE a \in hits : \A b \in hits : a <= b].delay
        ELSE pre[Len(pre)].delay

clearTimerInterval(s) ==
    [s EXCEPT !.intervals = @ \ {s.progressTicker}, !.progressTicker = NoTimer]

\* resetTimerValues() that keeps what is left of the working schedule
resetTimerValuesKeepsWorking(s) ==
    clearTimerInterval(
        [s EXCEPT !.currentValue = s.initialValue,
                  !.remainingMilliseconds = s.initialMilliseconds,
                  !.endTime = 0])

\* resetTimerValues()
resetTimerValues(s) ==
    clearTimerInterval(
        [s EXCEPT !.currentValue = s.initialValue,
                  !.remainingMilliseconds = s.initialMilliseconds,
                  !.endTime = 0,
                  !.workingIntervals = s.sayIntervals])

\* setProgressTicker(interval): anchors endTime when it is not anchored, and
\* starts a repeating timer
setProgressTicker(s) ==
    LET anchored == IF s.endTime = 0
                    THEN [s EXCEPT !.endTime = s.now + s.remainingMilliseconds]
                    ELSE s
        id == FreshId(anchored)
    IN  [anchored EXCEPT !.intervals = @ \cup {id}, !.progressTicker = id]

startPlayingInner(s) ==
    [setProgressTicker([s EXCEPT !.remainingMilliseconds = s.initialMilliseconds])
        EXCEPT !.play = TRUE]

startPlaying(s) ==
    IF s.endTime = 0 /\ s.config.sayStart
    THEN setTimeout(saySomething(s, s.startText), "startPlayingInner", preSpeakStart)
    ELSE startPlayingInner(s)

pausePlaying(s) == [clearTimerInterval(s) EXCEPT !.play = FALSE]

\* the function getResetClick() returns
resetClick(s) == [resetTimerValues(pausePlaying(s)) EXCEPT !.finished = FALSE]

\* the function getRestartClick() returns
restartClick(s) == startPlaying(resetClick(s))

endPlaying(s) ==
    LET sayDelay(s1)   == IF ~s1.config.noSayEnd THEN s1.endDelays.preSpeakEnd ELSE 0
        chimeAfter(s1) == IF ~s1.config.noEndChime THEN s1.endDelays.chimeDelay
                          ELSE sayDelay(s1)
        sayEnd(s1) == IF ~s1.config.noSayEnd THEN saySomething(s1, s1.endText) ELSE s1
        chime(s2)  == IF ~s2.config.noEndChime
                      THEN setTimeout(s2, "endSound", sayDelay(s2))
                      ELSE s2
        finish(s3) == clearTimerInterval([s3 EXCEPT !.finished = TRUE])
        after(s4)  ==
            IF s4.config.autoDestruct # -1
            THEN setTimeout(s4, "remove",
                            IF s4.config.autoDestruct < chimeAfter(s4)
                            THEN chimeAfter(s4) ELSE s4.config.autoDestruct)
            ELSE IF s4.config.autoReset THEN resetClick(s4)
            ELSE s4
        \* one statement after another, each on the state the one before left
        entered  == {[s EXCEPT !.endPlayed = @ + 1]}
        said     == {sayEnd(s1) : s1 \in entered}
        chimed   == {chime(s2) : s2 \in said}
        ended    == {finish(s3) : s3 \in chimed}
    IN  CHOOSE s5 \in {after(s4) : s4 \in ended} : TRUE

\* progressTickTock that ends the countdown once the lead time covers what is left
progressTickTockEndsWithinLead(s) ==
    LET left == IF s.endTime - s.now < 0 THEN 0 ELSE s.endTime - s.now
        s1   == [s EXCEPT !.remainingMilliseconds = left,
                          !.currentValue = millisecondsToTimeObj(left)]
    IN  IF left <= getSpeakPreOffset(left) THEN endPlaying(s1)
        ELSE IF /\ s1.workingIntervals # <<>>
                /\ (Head(s1.workingIntervals).offset + getSpeakPreOffset(left)) > left
             THEN LET sayThis == Head(s1.workingIntervals)
                      s2 == [s1 EXCEPT !.workingIntervals = Tail(@)]
                  IN  IF posMinus(sayThis.offset, left) < StaleAfter
                      THEN saySomething(s2, sayThis.message)
                      ELSE s2
             ELSE s1

\* progressTickTock on a working schedule that shares its array with the
\* canonical schedule
progressTickTockSharedSchedule(s) ==
    LET left      == IF s.endTime - s.now < 0 THEN 0 ELSE s.endTime - s.now
        preOffset == getSpeakPreOffset(left)
        announce(s1) ==
            IF left <= 0 THEN endPlaying(s1)
            ELSE IF /\ s1.workingIntervals # <<>>
                    /\ (Head(s1.workingIntervals).offset + preOffset) > left
                 THEN LET sayThis == Head(s1.workingIntervals)
                          s2 == [s1 EXCEPT !.workingIntervals = Tail(@),
                                           !.sayIntervals = Tail(s1.workingIntervals)]
                      IN  IF posMinus(sayThis.offset, left) < StaleAfter
                          THEN saySomething(s2, sayThis.message)
                          ELSE s2
                 ELSE s1
        updated == {[s EXCEPT !.remainingMilliseconds = left,
                              !.currentValue = millisecondsToTimeObj(left)]}
    IN  CHOOSE s3 \in {announce(s1) : s1 \in updated} : TRUE

\* progressTickTock that says the head of the working schedule and leaves it
\* in the schedule
progressTickTockSaysWithoutShift(s) ==
    LET left      == IF s.endTime - s.now < 0 THEN 0 ELSE s.endTime - s.now
        preOffset == getSpeakPreOffset(left)
        announce(s1) ==
            IF left <= 0 THEN endPlaying(s1)
            ELSE IF /\ s1.workingIntervals # <<>>
                    /\ (Head(s1.workingIntervals).offset + preOffset) > left
                 THEN LET sayThis == Head(s1.workingIntervals)
                      IN  IF posMinus(sayThis.offset, left) < StaleAfter
                          THEN saySomething(s1, sayThis.message)
                          ELSE [s1 EXCEPT !.workingIntervals = Tail(@)]
                 ELSE s1
        updated == {[s EXCEPT !.remainingMilliseconds = left,
                              !.currentValue = millisecondsToTimeObj(left)]}
    IN  CHOOSE s3 \in {announce(s1) : s1 \in updated} : TRUE

\* progressTickTock that says every announcement it removes, however late
progressTickTockSaysStale(s) ==
    LET left      == IF s.endTime - s.now < 0 THEN 0 ELSE s.endTime - s.now
        preOffset == getSpeakPreOffset(left)
        announce(s1) ==
            IF left <= 0 THEN endPlaying(s1)
            ELSE IF /\ s1.workingIntervals # <<>>
                    /\ (Head(s1.workingIntervals).offset + preOffset) > left
                 THEN saySomething([s1 EXCEPT !.workingIntervals = Tail(@)],
                                   Head(s1.workingIntervals).message)
                 ELSE s1
        updated == {[s EXCEPT !.remainingMilliseconds = left,
                              !.currentValue = millisecondsToTimeObj(left)]}
    IN  CHOOSE s3 \in {announce(s1) : s1 \in updated} : TRUE

\* progressTickTock that counts the remaining time down by the timer's period
\* instead of deriving it from endTime
progressTickTockCountsDown(s) ==
    LET left      == IF s.remainingMilliseconds - intervalTime < 0 THEN 0
                     ELSE s.remainingMilliseconds - intervalTime
        preOffset == getSpeakPreOffset(left)
        announce(s1) ==
            IF left <= 0 THEN endPlaying(s1)
            ELSE IF /\ s1.workingIntervals # <<>>
                    /\ (Head(s1.workingIntervals).offset + preOffset) > left
                 THEN LET sayThis == Head(s1.workingIntervals)
                          s2 == [s1 EXCEPT !.workingIntervals = Tail(@)]
                      IN  IF posMinus(sayThis.offset, left) < StaleAfter
                          THEN saySomething(s2, sayThis.message)
                          ELSE s2
                 ELSE s1
        updated == {[s EXCEPT !.remainingMilliseconds = left,
                              !.currentValue = millisecondsToTimeObj(left)]}
    IN  CHOOSE s3 \in {announce(s1) : s1 \in updated} : TRUE

\* progressTickTock that pops every due announcement of a backlog in one tick
progressTickTockDrainsBacklog(s) ==
    LET left      == IF s.endTime - s.now < 0 THEN 0 ELSE s.endTime - s.now
        preOffset == getSpeakPreOffset(left)
        due(s1)   == {i \in 1..Len(s1.workingIntervals) :
                         (s1.workingIntervals[i].offset + preOffset) > left}
        fresh(sayThis) == posMinus(sayThis.offset, left) < StaleAfter
        spoken(s1) == SelectSeq(SubSeq(s1.workingIntervals, 1, Cardinality(due(s1))),
                                fresh)
        announce(s1) ==
            IF left <= 0 THEN endPlaying(s1)
            ELSE [s1 EXCEPT
                    !.workingIntervals = SubSeq(@, Cardinality(due(s1)) + 1, Len(@)),
                    !.sink = @ \o [i \in 1..Len(spoken(s1)) |->
                                     [kind |-> "say", text |-> spoken(s1)[i].message]]]
        updated == {[s EXCEPT !.remainingMilliseconds = left,
                              !.currentValue = millisecondsToTimeObj(left)]}
    IN  CHOOSE s3 \in {announce(s1) : s1 \in updated} : TRUE

\* progressTickTock: the callback of the repeating timer
progressTickTock(s) ==
    LET left      == IF s.endTime - s.now < 0 THEN 0 ELSE s.endTime - s.now
        preOffset == getSpeakPreOffset(left)
        announce(s1) ==
            IF left <= 0 THEN endPlaying(s1)
            ELSE IF /\ s1.workingIntervals # <<>>
                    /\ (Head(s1.workingIntervals).offset + preOffset) > left
                 THEN LET sayThis == Head(s1.workingIntervals)
                          s2 == [s1 EXCEPT !.workingIntervals = Tail(@)]
                      IN  IF posMinus(sayThis.offset, left) < StaleAfter
                          THEN saySomething(s2, sayThis.message)
                          ELSE s2
                 ELSE s1
        updated == {[s EXCEPT !.remainingMilliseconds = left,
                              !.currentValue = millisecondsToTimeObj(left)]}
    IN  CHOOSE s3 \in {announce(s1) : s1 \in updated} : TRUE

\* the function getCloseClick() returns
closeClick(s) ==
    [s EXCEPT !.intervals = IF s.progressTicker # NoTimer THEN @ \ {s.progressTicker} ELSE @,
              !.listening = FALSE,
              !.dom = "removed"]

\* endSound(): the chime
endSound(s) == [s EXCEPT !.sink = Append(@, [kind |-> "chime", text |-> ""])]

\* (obj) => { obj.remove() }, and with it disconnectedCallback()
remove(s) == [s EXCEPT !.listening = FALSE, !.dom = "removed"]

(***************************************************************************)
(* Attribute parsing and connectedCallback()                               *)
(***************************************************************************)
\* the HTML attributes the element is given.  has* is hasAttribute(), the
\* other fields are the attribute's text
Attributes(time, hasSay, sayAttr, flags) ==
    [hasTime |-> TRUE, time |-> time, hasSay |-> hasSay, say |-> sayAttr,
     saystart |-> flags.saystart, autoreset |-> flags.autoreset,
     nosayend |-> flags.nosayend, noendchime |-> flags.noendchime,
     noclosebtn |-> flags.noclosebtn, priority |-> flags.priority,
     hasSelfdestruct |-> flags.hasSelfdestruct, selfdestruct |-> flags.selfdestruct,
     hasEndMessage |-> FALSE, endMessage |-> "", startMessage |-> ""]

\* no optional attribute is set
NoFlags ==
    [saystart |-> FALSE, autoreset |-> FALSE, nosayend |-> FALSE,
     noendchime |-> FALSE, noclosebtn |-> FALSE, priority |-> "",
     hasSelfdestruct |-> FALSE, selfdestruct |-> <<>>]

\* validateTimeDuration that falls back to one minute when the text matches no
\* pattern
validateTimeDurationFallsBack(s, hoursMinutesSeconds) ==
    LET m == MatchDuration(hoursMinutesSeconds)
        seconds  == IF ~m.ok THEN 60 ELSE IF m.g4 > 86400 THEN 86400 ELSE m.g4
        tmpStart == TimeObj(IF m.g1 # Undefined THEN m.g1 ELSE 0,
                            IF m.g2 # Undefined THEN m.g2 ELSE 0,
                            m.g3, Undefined)
    IN  IF ~m.ok \/ m.g4 # Undefined
        THEN [ok |-> TRUE,
              state |-> resetTimerValues(
                  [s EXCEPT !.initialMilliseconds = seconds * 1000,
                            !.initialValue = TimeObj(NaN, NaN, NaN, NaN)])]
        ELSE [ok |-> TRUE,
              state |-> resetTimerValues(
                  [s EXCEPT !.initialValue = tmpStart,
                            !.initialMilliseconds = timeObjToMilliseconds(tmpStart)])]

\* validateTimeDuration(hoursMinutesSeconds): the state it leaves, and its result
validateTimeDuration(s, hoursMinutesSeconds) ==
    LET m == MatchDuration(hoursMinutesSeconds)
        seconds  == IF m.g4 > 86400 THEN 86400 ELSE m.g4
        tmpStart == TimeObj(IF m.g1 # Undefined THEN m.g1 ELSE 0,
                            IF m.g2 # Undefined THEN m.g2 ELSE 0,
                            m.g3, Undefined)
    IN  IF ~m.ok THEN [ok |-> FALSE, state |-> s]
        ELSE IF m.g4 # Undefined
             \* line 1045 converts this.milliseconds, which is undefined
             THEN [ok |-> TRUE,
                   state |-> resetTimerValues(
                       [s EXCEPT !.initialMilliseconds = seconds * 1000,
                                 !.initialValue = TimeObj(NaN, NaN, NaN, NaN)])]
             ELSE [ok |-> TRUE,
                   state |-> resetTimerValues(
                       [s EXCEPT !.initialValue = tmpStart,
                                 !.initialMilliseconds = timeObjToMilliseconds(tmpStart)])]

\* the test of line 1251: a number without leading 0
IsNum(t) == Len(t) >= 1 /\ AllDigits(t, 1, Len(t)) /\ t[1] # "0"

\* parseAttributes()
parseAttributes(s, attrs) ==
    LET v  == validateTimeDuration(s, attrs.time)
        s1 == v.state
        \* (typeof priority !== 'undefined' || priority !== 'time'): getAttribute()
        \* gives null or a string, never undefined
        priority == IF TRUE \/ attrs.priority # "time" THEN "fraction" ELSE "time"
        sayNow   == IF attrs.hasSay THEN attrs.say ELSE sayDefault
        intAutoDestruct == parseInt(attrs.selfdestruct, 1, Len(attrs.selfdestruct))
        selfDestructOverride == attrs.hasSelfdestruct /\ IsNum(attrs.selfdestruct)
        autoDestruct == IF ~attrs.hasSelfdestruct THEN -1
                        ELSE IF IsNum(attrs.selfdestruct)
                             THEN (IF intAutoDestruct > 43200 THEN 43200
                                   ELSE intAutoDestruct) * 1000
                             ELSE 10000
    IN  IF ~attrs.hasTime THEN s
        ELSE IF ~v.ok THEN v.state
        ELSE [s1 EXCEPT
                !.config = [autoDestruct |-> IF attrs.noclosebtn /\ ~selfDestructOverride
                                             THEN -1 ELSE autoDestruct,
                            autoReset    |-> attrs.autoreset,
                            noCloseBtn   |-> attrs.noclosebtn /\ ~selfDestructOverride,
                            noEndChime   |-> attrs.noendchime,
                            noSayEnd     |-> attrs.nosayend /\ ~attrs.hasEndMessage,
                            sayStart     |-> attrs.saystart,
                            priority     |-> priority],
                !.endText = IF attrs.hasEndMessage THEN attrs.endMessage ELSE @,
                !.startText = IF attrs.startMessage # "" THEN attrs.startMessage ELSE @,
                !.say = sayNow,
                !.sayIntervals = parseRawIntervals(sayNow, s1.initialMilliseconds, priority)]

\* connectedCallback() that wires the handlers from 10000 ms on
connectedCallbackWiresFromTen(s, attrs) ==
    LET s1 == [parseAttributes(s, attrs) EXCEPT !.dom = "connected"]
    IN  IF s1.initialMilliseconds >= 10000
        THEN resetTimerValues([s1 EXCEPT !.listening = TRUE])
        ELSE s1

\* connectedCallback()
connectedCallback(s, attrs) ==
    LET s1 == [parseAttributes(s, attrs) EXCEPT !.dom = "connected"]
    IN  IF s1.initialMilliseconds > 10000
        THEN resetTimerValues([s1 EXCEPT !.listening = TRUE])
        ELSE s1

(***************************************************************************)
(* Inputs and bounds                                                       *)
(***************************************************************************)
\* the most tokens of a notation drawn for the schedule builder
MaxTokens == 2

\* the most click events of one behaviour
MaxClicks == 3

\* the most calls of endPlaying() of one behaviour
MaxEnds == 2

\* how far the clock runs beyond Epoch
MaxElapsed == 16000

\* the amounts by which the clock advances between two events
ClockSteps == {3900, 4000}

\* all sequences of at most n members of S
RECURSIVE SeqsUpTo(_, _)
SeqsUpTo(S, n) ==
    IF n = 0 THEN {<<>>}
    ELSE LET shorter == SeqsUpTo(S, n - 1)
         IN  shorter \cup {Append(q, x) : q \in shorter, x \in S}

\* "1/2" "1/3" "1/4" "30s" "last20" "allLast10" "minutes" "43s" "last51"
\* ("43s" is read as multiplier 4 and quantity 3)
BuildTokens ==
    { <<"1", "/", "2">>, <<"1", "/", "3">>, <<"1", "/", "4">>,
      <<"3", "0", "s">>,
      <<"l", "a", "s", "t", "2", "0">>,
      <<"a", "l", "l", "L", "a", "s", "t", "1", "0">>,
      <<"m", "i", "n", "u", "t", "e", "s">>,
      <<"4", "3", "s">>, <<"l", "a", "s", "t", "5", "1">> }

\* "0" "12" "45" "63" "66" "1:30" "3:00"
BuildTimes ==
    { <<"0">>, <<"1", "2">>, <<"4", "5">>, <<"6", "3">>, <<"6", "6">>,
      <<"1", ":", "3", "0">>, <<"3", ":", "0", "0">> }

\* "60s 1/3" and "1/3 60s": minute marks and thirds
OverlapSays ==
    { << <<"6", "0", "s">>, <<"1", "/", "3">> >>,
      << <<"1", "/", "3">>, <<"6", "0", "s">> >> }

\* a three minute timer with minute marks and thirds under each priority
\* attribute, and under none
PriorityAttrs ==
    {Attributes(<<"3", ":", "0", "0">>, TRUE, sayAttr, [NoFlags EXCEPT !.priority = p]) :
        sayAttr \in OverlapSays, p \in {"", "time", "fraction", "order"}}

\* "2s" "1m" "1h": one quantity with each unit, and nothing else
UnitSays == { << <<"2", "s">> >>, << <<"1", "m">> >>, << <<"1", "h">> >> }

\* a timer of 12 seconds with one such directive
UnitAttrs == {Attributes(<<"1", "2">>, TRUE, sayAttr, NoFlags) : sayAttr \in UnitSays}

\* "5" "15" "120": numbers written without unit or keyword
BareSays == { << <<"5">> >>, << <<"1", "5">> >>, << <<"1", "2", "0">> >> }

\* a timer of 45 seconds with one such number
BareAttrs == {Attributes(<<"4", "5">>, TRUE, sayAttr, NoFlags) : sayAttr \in BareSays}

\* "last90" "last3600" "last3660" "last7325": one announcement each, at 1:30,
\* 1:00:00, 1:01:00 and 2:02:05 before the end
MessageSays ==
    { << <<"l", "a", "s", "t", "9", "0">> >>,
      << <<"l", "a", "s", "t", "3", "6", "0", "0">> >>,
      << <<"l", "a", "s", "t", "3", "6", "6", "0">> >>,
      << <<"l", "a", "s", "t", "7", "3", "2", "5">> >> }

\* a timer of three hours with one such announcement
MessageAttrs ==
    {Attributes(<<"3", ":", "0", "0", ":", "0", "0">>, TRUE, sayAttr, NoFlags) :
        sayAttr \in MessageSays}

\* the attributes drawn for the schedule builder: a time, and a say attribute
\* that is absent or holds up to MaxTokens tokens
\* "everyLast30s" "everyLast1m": a cadence counted with every and last
EverySays ==
    { << <<"e", "v", "e", "r", "y", "L", "a", "s", "t", "3", "0", "s">> >>,
      << <<"e", "v", "e", "r", "y", "L", "a", "s", "t", "1", "m">> >> }

\* timers of 45 seconds, 1:30 and 3:00 with one such directive: 45 seconds is
\* no whole multiple of either cadence, and 1:30 is one of 30 seconds only
EveryAttrs ==
    {Attributes(time, TRUE, sayAttr, NoFlags) :
        time \in { <<"4", "5">>, <<"1", ":", "3", "0">>, <<"3", ":", "0", "0">> },
        sayAttr \in EverySays}

\* "3last10s" "2first5" "3last1m": a multiplier greater than 1 written with
\* first or last, and neither all nor every
MultiplierTokens ==
    { <<"3", "l", "a", "s", "t", "1", "0", "s">>,
      <<"2", "f", "i", "r", "s", "t", "5">>,
      <<"3", "l", "a", "s", "t", "1", "m">> }

\* such a token on its own, and followed by "1/2"
MultiplierSays ==
    {<<token>> : token \in MultiplierTokens}
    \cup {<<token, <<"1", "/", "2">> >> : token \in MultiplierTokens}

\* "43s" "2_30s": a multiplier written without first or last
UnanchoredSays == { << <<"4", "3", "s">> >>, << <<"2", "_", "3", "0", "s">> >> }

\* timers of 45 seconds and of 3:00 with these notations
MultiplierAttrs ==
    {Attributes(time, TRUE, sayAttr, NoFlags) :
        time \in { <<"4", "5">>, <<"3", ":", "0", "0">> },
        sayAttr \in MultiplierSays \cup UnanchoredSays}

BuildAttrs ==
    {Attributes(time, TRUE, sayAttr, NoFlags) :
        time \in BuildTimes, sayAttr \in SeqsUpTo(BuildTokens, MaxTokens)}
    \cup {Attributes(time, FALSE, <<>>, NoFlags) : time \in BuildTimes}
    \cup PriorityAttrs
    \cup UnitAttrs
    \cup BareAttrs
    \cup MessageAttrs
    \cup EveryAttrs
    \cup MultiplierAttrs

\* "" "1:60" "abc": texts the duration pattern does not match
InvalidTimes == { <<>>, <<"1", ":", "6", "0">>, <<"a", "b", "c">> }

\* "5" "10": durations that connectedCallback() wires no handler for
ShortTimes == { <<"5">>, <<"1", "0">> }

\* "12", the short durations, and the texts that are not durations
RunTimes == { <<"1", "2">> } \cup ShortTimes \cup InvalidTimes

\* "1/3 last4 last5"
RunSays == { << <<"1", "/", "3">>, <<"l", "a", "s", "t", "4">>,
                <<"l", "a", "s", "t", "5">> >> }

RunFlags ==
    {[NoFlags EXCEPT !.saystart = a, !.autoreset = b] : a \in BOOLEAN, b \in BOOLEAN}

\* the attributes drawn for the running timer
RunAttrs ==
    {Attributes(time, TRUE, sayAttr, flags) :
        time \in RunTimes, sayAttr \in RunSays, flags \in RunFlags}
    \cup {[Attributes(<<>>, TRUE, sayAttr, NoFlags) EXCEPT !.hasTime = FALSE] :
            sayAttr \in RunSays}

(***************************************************************************)
(* Actions                                                                 *)
(***************************************************************************)
\* the element is attached to the document: connectedCallback()
Build ==
    /\ dom = "constructed"
    /\ \E attrs \in BuildAttrs : Becomes(connectedCallback(Cur, attrs))

Connect ==
    /\ dom = "constructed"
    /\ \E attrs \in RunAttrs : Becomes(connectedCallback(Cur, attrs))

\* a click on the play/pause button: the function getPlayPauseClick() returns
PlayPauseClick ==
    /\ listening
    /\ clicks < MaxClicks
    /\ Becomes([(IF play THEN pausePlaying(Cur) ELSE startPlaying(Cur))
                   EXCEPT !.clicks = @ + 1])

ResetClick ==
    /\ listening
    /\ clicks < MaxClicks
    /\ Becomes([resetClick(Cur) EXCEPT !.clicks = @ + 1])

RestartClick ==
    /\ listening
    /\ clicks < MaxClicks
    /\ Becomes([restartClick(Cur) EXCEPT !.clicks = @ + 1])

CloseClick ==
    /\ listening
    /\ ~config.noCloseBtn
    /\ clicks < MaxClicks
    /\ Becomes([closeClick(Cur) EXCEPT !.clicks = @ + 1])

\* a live repeating timer calls progressTickTock
Tick ==
    /\ intervals # {}
    /\ endPlayed < MaxEnds
    /\ Becomes(progressTickTock(Cur))

\* a pending one-shot timer that is due calls its function; of the pending
\* timers the browser runs the one that is due first, and of two that are due
\* at the same instant the one that was set first
Timeout ==
    \E t \in timeouts :
        /\ now >= t.due
        /\ \A u \in timeouts : u.due > t.due \/ (u.due = t.due /\ u.id >= t.id)
        /\ \E s \in {[Cur EXCEPT !.timeouts = @ \ {t}]} :
              Becomes(CASE t.fn = "startPlayingInner" -> startPlayingInner(s)
                        [] t.fn = "endSound" -> endSound(s)
                        [] OTHER -> remove(s))

\* time passes
Advance ==
    /\ \E d \in ClockSteps :
          /\ now + d <= Epoch + MaxElapsed
          /\ now' = now + d
    /\ UNCHANGED << initialValue, currentValue, endTime, initialMilliseconds,
                    remainingMilliseconds, config, play, progressTicker, say,
                    sayIntervals, workingIntervals, endText, startText, finished,
                    dom, listening, intervals, timeouts, sink, clicks, endPlayed,
                    endDelays >>

Next ==
    \/ Connect
    \/ PlayPauseClick
    \/ ResetClick
    \/ RestartClick
    \/ CloseClick
    \/ Tick
    \/ Timeout
    \/ Advance

\* the running timer
Spec == Init /\ [][Next]_vars

\* the schedule builder on its own, over a wider set of notations and durations
SpecBuild == Init /\ [][Build]_vars

\* the attributes of a silent timer: say=""
SilentAttrs ==
    {Attributes(time, TRUE, <<>>, [NoFlags EXCEPT !.saystart = a]) :
        time \in RunTimes, a \in BOOLEAN}

ConnectSilent ==
    /\ dom = "constructed"
    /\ \E attrs \in SilentAttrs : Becomes(connectedCallback(Cur, attrs))

\* a click on the play/pause button of a timer that is not playing
StartClick ==
    /\ ~play
    /\ PlayPauseClick

NextLive ==
    \/ ConnectSilent
    \/ StartClick
    \/ Tick
    \/ Timeout
    \/ Advance

\* a silent timer that is started and left alone: the repeating timer keeps
\* calling its callback, pending one-shot timers fire, and the clock advances
SpecLive ==
    /\ Init
    /\ [][NextLive]_vars
    /\ WF_vars(Tick)
    /\ WF_vars(Timeout)
    /\ WF_vars(Advance)

\* "0" "9" "19" "23" "24"
HourTexts == { <<"0">>, <<"9">>, <<"1", "9">>, <<"2", "3">>, <<"2", "4">> }

\* "00" "01" "7" "30" "59"
SixtyTexts == { <<"0", "0">>, <<"0", "1">>, <<"7">>, <<"3", "0">>, <<"5", "9">> }

\* "60" "99" "100" "86399" "86400" "86401" "99999" "999999"
CountTexts ==
    { <<"6", "0">>, <<"9", "9">>, <<"1", "0", "0">>,
      <<"8", "6", "3", "9", "9">>, <<"8", "6", "4", "0", "0">>,
      <<"8", "6", "4", "0", "1">>, <<"9", "9", "9", "9", "9">>,
      <<"9", "9", "9", "9", "9", "9">> }

\* the time texts drawn for the duration parser: SS, MM:SS, HH:MM:SS, second
\* counts, and texts that are not durations ("25:00:00" and "1000000" too)
TimeTexts ==
    SixtyTexts
    \cup {m \o <<":">> \o s : m \in SixtyTexts, s \in SixtyTexts}
    \cup {h \o <<":">> \o m \o <<":">> \o s :
            h \in HourTexts, m \in SixtyTexts, s \in SixtyTexts}
    \cup CountTexts
    \cup InvalidTimes
    \cup { <<"2", "5", ":", "0", "0", ":", "0", "0">>,
           <<"1", "0", "0", "0", "0", "0", "0">> }

\* the attributes drawn for the duration parser: a time, and say=""
TimeAttrs == {Attributes(time, TRUE, <<>>, NoFlags) : time \in TimeTexts}

\* connectedCallback() on an element whose time attribute is any of TimeTexts
Configure ==
    /\ dom = "constructed"
    /\ \E attrs \in TimeAttrs : Becomes(connectedCallback(Cur, attrs))

\* the remaining times a tick may compute
Remainders ==
    { 0, 1, 99, 100, 101, 950, 1000, 1001, 59999, 60000, 60100, 3599999,
      3600000, 3661100, 86399999, 86400000 }

\* the first statements of progressTickTock, at a clock reading that leaves d
\* milliseconds: the remaining time and the displayed value are recomputed
ShowRemaining ==
    /\ dom = "connected"
    /\ \E d \in Remainders :
          /\ d <= initialMilliseconds
          /\ remainingMilliseconds' = d
          /\ currentValue' = millisecondsToTimeObj(d)
    /\ UNCHANGED << initialValue, endTime, initialMilliseconds, config, play,
                    progressTicker, say, sayIntervals, workingIntervals, endText,
                    startText, finished, dom, listening, now, intervals, timeouts,
                    sink, clicks, endPlayed, endDelays >>

NextTime ==
    \/ Configure
    \/ ShowRemaining

\* the duration parser and the time codec on their own, over a wider set of
\* time texts and remaining times
SpecTime == Init /\ [][NextTime]_vars

(***************************************************************************)
(* Properties                                                              *)
(***************************************************************************)
StrictlyDescending(schedule) ==
    \A i \in 1..(Len(schedule) - 1) : schedule[i].offset > schedule[i + 1].offset

OffsetsOf(schedule) == {schedule[i].offset : i \in 1..Len(schedule)}

\* the raw announcements of the configured notation, in the order they were
\* fed to the filter
RawNow == RawOutput(say, initialMilliseconds, config.priority)

\* the offsets of a sequence of announcements, in its order
OffsetSeq(schedule) == [i \in 1..Len(schedule) |-> schedule[i].offset]

\* the place at which an offset was first fed to the filter; fed is the
\* sequence of the offsets fed
FirstFed(fed, offset) ==
    CHOOSE j \in 1..Len(fed) :
        /\ fed[j] = offset
        /\ \A i \in 1..(j - 1) : fed[i] # offset

\* a paused run: started, stopped by pause, time left, not finished
Paused == ~play /\ endTime # 0 /\ remainingMilliseconds > 0 /\ ~finished

\* C1: when a paused timer with remaining time r is resumed, endTime is
\* re-anchored to the time of the resume plus r, so that the time spent
\* paused is not deducted from the countdown.
C1_ResumeReanchors ==
    [][(Paused /\ PlayPauseClick) => endTime' = now + remainingMilliseconds]_vars

\* C2: in every reachable state the working schedule (and the canonical one it
\* is cloned from) is strictly descending by offset, so it holds no offset
\* twice and its head is the largest offset, the next announcement due.
C2_ScheduleStrictlyDescending ==
    /\ StrictlyDescending(workingIntervals)
    /\ StrictlyDescending(sayIntervals)
    /\ \A i \in 1..Len(workingIntervals) :
          workingIntervals[1].offset >= workingIntervals[i].offset

\* C2 witness: a run has popped announcements and at least two are left
C2_Witness ==
    /\ endTime # 0
    /\ Len(workingIntervals) >= 2
    /\ Len(workingIntervals) < Len(sayIntervals)

\* C3: any two distinct announcements of a built schedule whose offsets are
\* both above 30000 ms are at least 5000 ms apart.
C3_FarOffsetsApart ==
    \A i, j \in 1..Len(sayIntervals) :
        (/\ i # j
         /\ sayIntervals[i].offset > DenseBelow
         /\ sayIntervals[j].offset > DenseBelow)
        => posMinus(sayIntervals[i].offset, sayIntervals[j].offset) >= CloseWindow

\* C3 witness: a schedule with two offsets above 30000 ms, built from raw
\* announcements one of which was dropped for being too close to an accepted one
C3_Witness ==
    LET fed  == OffsetSeq(RawNow)
        kept == OffsetsOf(sayIntervals)
    IN  /\ \E o1, o2 \in kept : o1 # o2 /\ o1 > DenseBelow /\ o2 > DenseBelow
        /\ \E k \in 1..Len(fed) :
              /\ fed[k] \notin kept
              /\ fed[k] > DenseBelow
              /\ fed[k] < initialMilliseconds
              /\ \E o \in kept : tooClose(fed[k], o)

\* C4 as claimed: two distinct announcements of a built schedule are less than
\* 5000 ms apart only when both offsets are at most 30000 ms, whatever the
\* order in which they were fed to the filter.
C4_CloseOnlyWhenBothDense ==
    \A i, j \in 1..Len(sayIntervals) :
        (i # j /\ posMinus(sayIntervals[i].offset, sayIntervals[j].offset) < CloseWindow)
        => (sayIntervals[i].offset <= DenseBelow /\ sayIntervals[j].offset <= DenseBelow)

\* C4 as amended: of two distinct announcements of a built schedule that are
\* less than 5000 ms apart, the one fed to the filter later has an offset of
\* at most 30000 ms (and so has the smaller of the two); the one fed earlier
\* may exceed 30000 ms.
C4_CloseOnlyWhenLaterDense ==
    LET fed  == OffsetSeq(RawNow)
        kept == OffsetsOf(sayIntervals)
    IN  \A o1, o2 \in kept :
            (/\ FirstFed(fed, o1) < FirstFed(fed, o2)
             /\ posMinus(o1, o2) < CloseWindow)
            => (o2 <= DenseBelow /\ (o1 <= DenseBelow \/ o2 < o1))

\* C4 witness: a schedule with an offset above 30000 ms and one at most
\* 30000 ms less than 5000 ms from it
C4_Witness ==
    \E i, j \in 1..Len(sayIntervals) :
        /\ sayIntervals[i].offset > DenseBelow
        /\ sayIntervals[j].offset <= DenseBelow
        /\ posMinus(sayIntervals[i].offset, sayIntervals[j].offset) < CloseWindow

\* C5: every announcement of a built schedule has 0 < offset < duration, and
\* a raw announcement is missing from the schedule only if it is out of range
\* or is above 30000 ms and too close to an announcement fed before it that
\* is in the schedule: a dropped announcement never causes a drop.
C5_DropsOnlyAgainstAccepted ==
    LET fed  == OffsetSeq(RawNow)
        kept == OffsetsOf(sayIntervals)
    IN  /\ \A o \in kept : o > 0 /\ o < initialMilliseconds
        /\ \A j \in 1..Len(fed) :
              \/ fed[j] \in kept
              \/ fed[j] <= 0
              \/ fed[j] >= initialMilliseconds
              \/ /\ fed[j] > DenseBelow
                 /\ \E i \in 1..(j - 1) : fed[i] \in kept /\ tooClose(fed[j], fed[i])

\* C5 witness: an announcement was dropped, and one fed after it and too
\* close to it (but to no accepted one) is in the schedule
C5_Witness ==
    LET fed  == OffsetSeq(RawNow)
        kept == OffsetsOf(sayIntervals)
    IN  \E i, j \in 1..Len(fed) :
            /\ i < j
            /\ fed[i] \notin kept
            /\ fed[i] < initialMilliseconds
            /\ fed[j] \in kept
            /\ fed[j] > DenseBelow
            /\ tooClose(fed[j], fed[i])

\* the notations "1/2", "30s", "minutes allLast10" and the token "allLast10"
HalfNotation == << <<"1", "/", "2">> >>

ThirtyNotation == << <<"3", "0", "s">> >>

AllLast10 == <<"a", "l", "l", "L", "a", "s", "t", "1", "0">>

MinutesNotation == << <<"m", "i", "n", "u", "t", "e", "s">>, AllLast10 >>

HalfSchedule == << Announcement(initialMilliseconds \div 2, "Half way") >>

\* C6 as claimed: for every duration the timer accepts, the notation "1/2"
\* yields exactly one announcement, at half the duration, with the fixed
\* half-way phrase.
C6_HalfForEveryDuration ==
    say = HalfNotation => sayIntervals = HalfSchedule

\* C6 as amended: the same for every accepted duration greater than 0 (with a
\* duration of 0 the offset 0 is filtered out and the schedule is empty).
C6_HalfForPositiveDuration ==
    /\ (say = HalfNotation /\ initialMilliseconds > 0) => sayIntervals = HalfSchedule
    /\ (say = HalfNotation /\ initialMilliseconds = 0) => sayIntervals = <<>>

\* C6 witness: "1/2" on a positive duration
C6_Witness ==
    say = HalfNotation /\ initialMilliseconds > 0 /\ Len(sayIntervals) = 1

\* C7 as claimed: the notation "30s" yields exactly one announcement, at
\* 30000 ms, whenever 30000 < T, and none otherwise.
C7_ThirtyIsOneShot ==
    (say = ThirtyNotation) =>
        IF 30000 < initialMilliseconds
        THEN Len(sayIntervals) = 1 /\ sayIntervals[1].offset = 30000
        ELSE sayIntervals = <<>>

\* C7 as amended: "30s" is a symmetric directive.  The schedule is empty when
\* T < 60000; when T >= 60000 it holds an announcement at 30000 ms and every
\* announcement is at k*30000 or T - k*30000 ms with k >= 1 and
\* k*30000 <= T/2; it holds exactly one when 60000 <= T < 65000.
C7_ThirtyIsSymmetric ==
    (say = ThirtyNotation) =>
        LET T     == initialMilliseconds
            marks == {k * 30000 : k \in 1..(T \div 60000)}
        IN  /\ T < 60000 => sayIntervals = <<>>
            /\ T >= 60000 =>
                  /\ 30000 \in OffsetsOf(sayIntervals)
                  /\ OffsetsOf(sayIntervals) \subseteq (marks \cup {T - o : o \in marks})
            /\ (T >= 60000 /\ T < 65000) => Len(sayIntervals) = 1

\* C7 witness: "30s" on a duration that yields more than one announcement
C7_Witness ==
    say = ThirtyNotation /\ initialMilliseconds >= 65000 /\ Len(sayIntervals) >= 2

\* C8: with T = 180000 ms the notation "minutes allLast10" yields an
\* announcement at 120000 ms saying "1 minute gone" and one at 60000 ms
\* saying "1 minute to go".
C8_MinuteMarks ==
    (say = MinutesNotation /\ initialMilliseconds = 180000) =>
        /\ \E i \in 1..Len(sayIntervals) :
              /\ sayIntervals[i].offset = 120000
              /\ sayIntervals[i].message \in {"1 minute gone", "1 minute gone."}
        /\ \E i \in 1..Len(sayIntervals) :
              /\ sayIntervals[i].offset = 60000
              /\ sayIntervals[i].message \in {"1 minute to go", "1 minute to go."}

\* the ten announcements of a last ten seconds countdown
Countdown ==
    << Announcement(10000, "10"), Announcement(9000, "9"), Announcement(8000, "8"),
       Announcement(7000, "7"), Announcement(6000, "6"), Announcement(5000, "5"),
       Announcement(4000, "4"), Announcement(3000, "3"), Announcement(2000, "2"),
       Announcement(1000, "1") >>

\* C9: for every duration above 10000 ms the directive "allLast10" yields
\* exactly the ten announcements at 10000, 9000, ..., 1000 ms, the message of
\* the one at k*1000 being the bare number k; next to other directives each
\* of these ten offsets is in the schedule.
C9_LastTenCountdown ==
    /\ (say = <<AllLast10>> /\ initialMilliseconds > 10000) => sayIntervals = Countdown
    /\ ((\E i \in 1..Len(say) : say[i] = AllLast10) /\ initialMilliseconds > 10000)
          => \A k \in 1..10 : (k * 1000) \in OffsetsOf(sayIntervals)

\* C9 witness: "allLast10" alone on a duration above 10000 ms
C9_Witness ==
    say = <<AllLast10>> /\ initialMilliseconds > 10000 /\ Len(sayIntervals) = 10

\* C10: endPlaying() is performed only by a tick of the repeating timer in
\* which the recomputed remaining time, endTime - now cut off at 0, is 0;
\* never by a tick that still has remaining time, however small.
C10_EndOnlyAtZero ==
    [][(endPlayed' # endPlayed) =>
          /\ intervals # {}
          /\ endTime - now <= 0
          /\ now' = now
          /\ (~config.autoReset => remainingMilliseconds' = 0)]_vars

\* C10 witness: the countdown has finished
C10_Witness ==
    endPlayed = 1 /\ finished /\ remainingMilliseconds = 0 /\ endTime # 0

\* the largest step of the clock
MaxStep == Max(ClockSteps)

\* a run is under way whose end the clock of the model can reach
RunCanEnd ==
    /\ intervals # {}
    /\ endTime # 0
    /\ endTime + MaxStep <= Epoch + MaxElapsed

\* every output so far is the chime, the end text or the start text
OnlyStartAndEnd ==
    \A i \in 1..Len(sink) :
        sink[i].kind = "chime" \/ sink[i].text \in {endText, startText}

\* C11: with the notation "" the built schedule is empty; a started timer
\* that keeps receiving ticks while the clock advances eventually performs the
\* end-of-countdown action, and nothing but the end (and the start text, when
\* that is configured) is ever emitted.
C11_SilentRunFinishes ==
    /\ [](sayIntervals = <<>> /\ workingIntervals = <<>> /\ OnlyStartAndEnd)
    /\ (RunCanEnd ~> (endPlayed >= 1))

\* C11 witness: a silent timer has finished and the end text was said
C11_Witness ==
    /\ dom = "connected"
    /\ say = <<>>
    /\ endPlayed >= 1
    /\ \E i \in 1..Len(sink) : sink[i].text = endText


\* the dispatcher is Idle: no repeating timer is live, play is false, endTime
\* is not anchored, the whole duration remains and the working schedule is the
\* canonical one
Idle ==
    /\ intervals = {}
    /\ progressTicker = NoTimer
    /\ ~play
    /\ endTime = 0
    /\ remainingMilliseconds = initialMilliseconds
    /\ workingIntervals = sayIntervals

\* C12: every reset click, from any state, leaves the dispatcher Idle: the
\* repeating tick is stopped, play is false, endTime is 0, the remaining time is
\* the initial duration and the working schedule equals the canonical schedule
C12_ResetGivesIdle == [][ResetClick => Idle']_vars

\* C13: once the element is configured, no click, tick or one-shot timer
\* changes the canonical schedule sayIntervals: announcements are removed from
\* the working schedule only
C13_CanonicalNeverChanges == [][dom = "connected" => sayIntervals' = sayIntervals]_vars

\* C13 witness: announcements were popped over a run with a pause and a resume,
\* and the canonical schedule is still whole
C13_Witness ==
    /\ dom = "connected"
    /\ clicks >= 3
    /\ Len(sayIntervals) = 3
    /\ Len(workingIntervals) < Len(sayIntervals)
    /\ \E i \in 1..Len(sink) : sink[i].text = sayIntervals[1].message

\* a is what is left of b once some of its first members are removed
IsSuffix(a, b) == \E k \in 0..Len(b) : a = SubSeq(b, k + 1, Len(b))

\* this step hands an announcement of the schedule to the speech sink
EmitsAnnouncement ==
    /\ Len(sink') = Len(sink) + 1
    /\ sink'[Len(sink')].kind = "say"
    /\ sink'[Len(sink')].text \notin {endText, startText}

\* this step resets the timer: a reset or restart click, or an end with autoreset
ResetStep ==
    \/ ResetClick
    \/ RestartClick
    \/ Connect
    \/ (Tick /\ config.autoReset /\ endPlayed' = endPlayed + 1)

\* C14: within one run every announcement is emitted at most once.  The working
\* schedule is always what is left of the canonical schedule, whose offsets are
\* distinct; a step that emits an announcement emits the head of the working
\* schedule and removes it; and only a reset puts an announcement back
C14_EmittedAtMostOnce ==
    /\ [](IsSuffix(workingIntervals, sayIntervals) /\ StrictlyDescending(sayIntervals))
    /\ [][EmitsAnnouncement =>
            /\ workingIntervals # <<>>
            /\ sink'[Len(sink')].text = Head(workingIntervals).message
            /\ workingIntervals' = Tail(workingIntervals)]_vars
    /\ [][~IsSuffix(workingIntervals', workingIntervals) => ResetStep]_vars

\* C14 witness: two announcements were emitted in a run that was paused and
\* resumed, each of them once
C14_Witness ==
    /\ clicks >= 3
    /\ endPlayed = 0
    /\ Len(sayIntervals) = 3
    /\ Len(workingIntervals) = 1
    /\ \A k \in 1..2 :
          Cardinality({i \in 1..Len(sink) : sink[i].text = sayIntervals[k].message}) = 1

\* this step is a tick that removes the head of the working schedule
PopsHead ==
    /\ Tick
    /\ workingIntervals # <<>>
    /\ workingIntervals' = Tail(workingIntervals)

\* the head of the working schedule is less than 2000 ms away from the remaining
\* time this tick computes
HeadIsFresh ==
    LET d == Head(workingIntervals).offset - remainingMilliseconds'
    IN  (IF d < 0 THEN -d ELSE d) < 2000

\* C15: a tick that removes the head of the working schedule emits it exactly
\* when its offset is less than 2000 ms away from the remaining time computed in
\* that tick; otherwise nothing is emitted, and the repeating timer and the play
\* flag stay as they are, so the next tick carries on
C15_StaleDroppedSilently ==
    [][PopsHead =>
        /\ HeadIsFresh => /\ EmitsAnnouncement
                          /\ sink'[Len(sink')].text = Head(workingIntervals).message
        /\ ~HeadIsFresh => sink' = sink
        /\ intervals' = intervals
        /\ play' = play
        /\ endPlayed' = endPlayed]_vars

\* C15 witness: in a run started by one click the first announcement was removed
\* without being said, and the second was said by a later tick
C15_Witness ==
    /\ clicks = 1
    /\ play
    /\ Len(sayIntervals) = 3
    /\ Len(workingIntervals) = 1
    /\ \A i \in 1..Len(sink) : sink[i].text # sayIntervals[1].message
    /\ \E i \in 1..Len(sink) : sink[i].text = sayIntervals[2].message

\* C16: while the repeating timer is stopped (pause, reset or finish cleared
\* progressTicker and no start has set it again) no tick handler runs, so
\* nothing is dispatched in the Paused, Idle and Finished states
C16_NoTickWhileStopped == [][progressTicker = NoTimer => ~Tick]_vars

\* C17: at most one repeating timer is live at any time
C17_OneRepeatingTimer == Cardinality(intervals) <= 1

\* C18: every duration the parser accepts is at most 86,400,000 ms
C18_DurationAtMostOneDay == initialMilliseconds <= 86400000

\* C19 as stated: converting a remaining time to time components and back gives
\* the same number of milliseconds
C19_RoundTripExact ==
    [][ShowRemaining => timeObjToMilliseconds(currentValue') = remainingMilliseconds']_vars

\* C19: converting a remaining time d to time components and back gives d
\* without its remainder modulo 100 ms (the components hold whole tenths of a
\* second), so it gives d exactly when d is a multiple of 100 ms
C19_RoundTripToTenths ==
    [][ShowRemaining =>
        /\ timeObjToMilliseconds(currentValue')
             = remainingMilliseconds' - (remainingMilliseconds' % multipliers.tenths)
        /\ currentValue'.tenths \in 0..9
        /\ currentValue'.seconds \in 0..59
        /\ currentValue'.minutes \in 0..59]_vars

\* C19 witness: a remaining time that is not a multiple of 100 ms was converted
C19_Witness ==
    /\ dom = "connected"
    /\ remainingMilliseconds = 3599999
    /\ currentValue = TimeObj(0, 59, 59, 9)
    /\ timeObjToMilliseconds(currentValue) = 3599900

\* the element's time attribute is missing or matches no duration pattern
TimeRejected(attrs) == ~attrs.hasTime \/ ~MatchDuration(attrs.time).ok

\* C20: connectedCallback on a time text that matches no duration pattern (or on
\* no time attribute) has validateTimeDuration report failure, leaves the duration, the schedules and the configuration
\* as the constructor set them and wires no click handler; from then on the
\* dispatcher is Idle for good: nothing listens, no timer is created, nothing
\* is said
C20_InvalidTimeNeverStarts ==
    /\ [][\A attrs \in RunAttrs :
            (/\ dom = "constructed"
             /\ TimeRejected(attrs)
             /\ Cur' = connectedCallback(Cur, attrs))
            => /\ attrs.hasTime => ~validateTimeDuration(Cur, attrs.time).ok
               /\ initialMilliseconds' = initialMilliseconds
               /\ initialValue' = initialValue
               /\ sayIntervals' = sayIntervals
               /\ workingIntervals' = workingIntervals
               /\ config' = config
               /\ ~listening']_vars
    /\ []((dom = "connected" /\ initialMilliseconds = 0) =>
            /\ ~listening
            /\ Idle
            /\ timeouts = {}
            /\ sink = <<>>
            /\ endPlayed = 0
            /\ clicks = 0)

\* C20 witness: an element with a rejected time text is connected, time has
\* passed, and it is still Idle with the constructor's duration
C20_Witness ==
    /\ dom = "connected"
    /\ initialMilliseconds = 0
    /\ sayIntervals = <<>>
    /\ ~listening
    /\ now >= Epoch + 2 * MaxStep

\* "minutes" "1/11" "15x" "x15" "last": tokens the pattern does not match
JunkTokens ==
    { <<"m", "i", "n", "u", "t", "e", "s">>, <<"1", "/", "1", "1">>,
      <<"1", "5", "x">>, <<"x", "1", "5">>, <<"l", "a", "s", "t">> }

\* the token is a directive: the pattern matches it
IsDirective(token) == MatchToken(token).ok

\* C21: a token the pattern does not match contributes nothing and does not
\* stop the parse: a notation that holds such tokens, wherever they stand,
\* builds the schedule that the notation builds without them
C21_JunkTokenIgnored ==
    dom = "connected" =>
        /\ \A token \in JunkTokens : ~IsDirective(token)
        /\ (\E i \in 1..Len(say) : say[i] \in JunkTokens) =>
              sayIntervals = parseRawIntervals(SelectSeq(say, IsDirective),
                                               initialMilliseconds, config.priority)

\* C21 witness: a notation with a token that is no directive before a directive,
\* and a schedule that holds the directive's announcements
C21_Witness ==
    /\ dom = "connected"
    /\ say = << <<"m", "i", "n", "u", "t", "e", "s">>, AllLast10 >>
    /\ Len(sayIntervals) = 10

\* the members of a sequence
RangeOf(q) == {q[i] : i \in 1..Len(q)}

\* the announcements the time directives of a notation yield, and those its
\* fraction directives yield
TimeKind(notation, durationMilli) == IntervalsOfKind(notation, durationMilli, {FALSE})

FractionKind(notation, durationMilli) == IntervalsOfKind(notation, durationMilli, {TRUE})

\* the announcements of the kind the priority attribute should let win: the
\* time kind under "time", the fraction kind under "fraction", and the kind of
\* the first token under "order"
Winners(attrs, durationMilli) ==
    IF attrs.priority = "time" THEN TimeKind(attrs.say, durationMilli)
    ELSE IF attrs.priority = "fraction" THEN FractionKind(attrs.say, durationMilli)
    ELSE IF MatchToken(Head(attrs.say)).g7 # Undefined
         THEN FractionKind(attrs.say, durationMilli)
         ELSE TimeKind(attrs.say, durationMilli)

\* C22: the priority attribute decides which of two announcements at the same
\* offset above 30000 ms is kept: on a three minute timer with minute marks and
\* thirds, every announcement kept at 60000 or 120000 ms is of the time kind
\* under "time", of the fraction kind under "fraction", and of the kind of the
\* first token under "order"
C22_PriorityDecides ==
    [][\A attrs \in PriorityAttrs :
          (/\ dom = "constructed"
           /\ attrs.priority # ""
           /\ say' = attrs.say
           /\ Cur' = connectedCallback(Cur, attrs))
          => \A i \in 1..Len(sayIntervals') :
                sayIntervals'[i] \in RangeOf(Winners(attrs, initialMilliseconds'))]_vars

\* C23: without a priority attribute, on a three minute timer with minute
\* marks and thirds, the announcements kept at 60000 and 120000 ms are the time
\* announcements
C23_MinuteBeatsThird ==
    (dom = "connected" /\ say \in OverlapSays) =>
        /\ OffsetsOf(sayIntervals) = {60000, 120000}
        /\ RangeOf(sayIntervals) \subseteq RangeOf(TimeKind(say, initialMilliseconds))

(***************************************************************************)
(* The end of a countdown on a page that sets its own delays               *)
(***************************************************************************)
\* values a page gives talkingTimerExternalDefaults.preSpeakEnd and .chimeDelay
EndDelays ==
    {[preSpeakEnd |-> p, chimeDelay |-> c] : p \in {2000, 3300}, c \in {1000, 3600}}

\* the constructor on a page that defines talkingTimerExternalDefaults
InitEnd ==
    /\ Constructed
    /\ endDelays \in EndDelays

\* time="12" say="" selfdestruct="1" or "2", with and without nosayend
EndAttrs ==
    {Attributes(<<"1", "2">>, TRUE, <<>>,
                [NoFlags EXCEPT !.hasSelfdestruct = TRUE, !.selfdestruct = d,
                                !.nosayend = a]) :
        d \in {<<"1">>, <<"2">>}, a \in BOOLEAN}

ConnectEnd ==
    /\ dom = "constructed"
    /\ \E attrs \in EndAttrs : Becomes(connectedCallback(Cur, attrs))

NextEnd ==
    \/ ConnectEnd
    \/ StartClick
    \/ Tick
    \/ Timeout
    \/ Advance

\* a self-destructing timer that is started and left to run out
SpecEnd == InitEnd /\ [][NextEnd]_vars

\* the outputs so far include one of this kind
Emitted(kind) == \E i \in 1..Len(sink) : sink[i].kind = kind

\* this step is the end chime's callback
ChimeStep == Len(sink') = Len(sink) + 1 /\ sink'[Len(sink')].kind = "chime"

\* this step is the self-destruct timer's callback
RemoveStep == dom = "connected" /\ dom' = "removed"

\* C24: at the end of a countdown the end chime's callback runs only after the
\* end text was spoken, and the self-destruct removal runs only after the end
\* chime's callback, whatever the positive values of preSpeakEnd, chimeDelay
\* and autoDestruct
C24_EndActionsInOrder ==
    [][/\ (ChimeStep /\ ~config.noSayEnd) => Emitted("say")
       /\ RemoveStep => Emitted("chime")]_vars

\* the head of the list is due when left milliseconds remain
DueHead(list, left) ==
    /\ list # <<>>
    /\ (Head(list).offset + getSpeakPreOffset(left)) > left

\* this step is a tick that does not finish the countdown
RunningTick == Tick /\ endTime - now > 0

\* C25 (as stated): at the end of every tick that does not finish the countdown
\* no due announcement is left at the head of the working schedule, however
\* many were backlogged
C25_NoDueHeadAfterTick ==
    [][RunningTick => ~DueHead(workingIntervals', remainingMilliseconds')]_vars

\* C25 (amended): a tick that does not finish the countdown pops the head of the
\* working schedule when it is due, and pops nothing else: a backlog of due
\* announcements shrinks by one per tick
C25_OneDueHeadPerTick ==
    [][RunningTick =>
          workingIntervals' = IF DueHead(workingIntervals, remainingMilliseconds')
                              THEN Tail(workingIntervals)
                              ELSE workingIntervals]_vars

\* a tick has popped an announcement and the next one is due as well
C25_Witness ==
    /\ play
    /\ remainingMilliseconds > 0
    /\ Len(workingIntervals) < Len(sayIntervals)
    /\ DueHead(workingIntervals, remainingMilliseconds)

\* the remaining time is within the duration, and so is the progress ratio
\* 1 - remaining / initial within [0, 1]
RemainingInRange ==
    /\ 0 <= remainingMilliseconds
    /\ remainingMilliseconds <= initialMilliseconds
    /\ initialMilliseconds > 0 =>
          /\ 0 <= initialMilliseconds - remainingMilliseconds
          /\ initialMilliseconds - remainingMilliseconds <= initialMilliseconds

\* the finishing tick ends in getResetClick()'s function
EndsInReset == config.autoDestruct = -1 /\ config.autoReset

\* C26 (as stated): after every tick the stored remaining time is
\* max(0, endTime - now), and in every state 0 <= remaining <= initial
\* duration, so that the progress ratio is within [0, 1]
C26_RemainingIsAnchored ==
    /\ []RemainingInRange
    /\ [][Tick => remainingMilliseconds' =
                     IF endTime - now > 0 THEN endTime - now ELSE 0]_vars

\* C26 (amended): after every tick the stored remaining time is
\* max(0, endTime - now), except after the tick that finishes an auto-resetting
\* timer, which leaves the initial duration; in every state
\* 0 <= remaining <= initial duration and the progress ratio is within [0, 1]
C26_RemainingIsAnchoredOrReset ==
    /\ []RemainingInRange
    /\ [][Tick => remainingMilliseconds' =
                     IF endTime - now > 0 THEN endTime - now
                     ELSE IF EndsInReset THEN initialMilliseconds ELSE 0]_vars

\* a tick of a running timer has stored a remaining time strictly inside the
\* duration
C26_Witness ==
    /\ play
    /\ 0 < remainingMilliseconds
    /\ remainingMilliseconds < initialMilliseconds
    /\ remainingMilliseconds = endTime - now

(***************************************************************************)
(* A ninety-second countdown, ticked at chosen remaining times             *)
(***************************************************************************)
\* time="1:30" say="1/4 last20 allLast10"
LeadAttrs ==
    {Attributes(<<"1", ":", "3", "0">>, TRUE,
                << <<"1", "/", "4">>, <<"l", "a", "s", "t", "2", "0">>, AllLast10 >>,
                NoFlags)}

ConnectLead ==
    /\ dom = "constructed"
    /\ \E attrs \in LeadAttrs : Becomes(connectedCallback(Cur, attrs))

\* remaining times at which the clock is read: around each announcement's
\* offset plus lead time, and on both sides of each band of the lead table
LeadRemainders ==
    { 86401, 86400, 68800, 68700, 68600, 46200, 46100, 23700, 23600,
      21300, 21200, 21100, 20000, 19999, 10700, 10600, 10500, 10200, 10100,
      10000, 9200, 9100, 8100, 1200, 1100, 0 }

\* time passes until r milliseconds remain
AdvanceTo ==
    /\ endTime # 0
    /\ \E r \in LeadRemainders :
          /\ endTime - r > now
          /\ now' = endTime - r
    /\ UNCHANGED << initialValue, currentValue, endTime, initialMilliseconds,
                    remainingMilliseconds, config, play, progressTicker, say,
                    sayIntervals, workingIntervals, endText, startText, finished,
                    dom, listening, intervals, timeouts, sink, clicks, endPlayed,
                    endDelays >>

NextLead ==
    \/ ConnectLead
    \/ StartClick
    \/ Tick
    \/ AdvanceTo

\* a timer that is started and whose clock is read at the chosen times
SpecLead == Init /\ [][NextLead]_vars

\* the lead time as the bands of the lead table give it
LeadTime(remaining) ==
    IF remaining <= 10000 THEN 200 ELSE IF remaining <= 19999 THEN 600 ELSE 1200

UnitMs(u) == CASE u = "m" -> 60000 [] u = "h" -> 3600000 [] OTHER -> 1000

\* k * step and T - k * step for k = 1, 2, ... while k * step <= T / 2
SymmetricOffsets(step, T) ==
    UNION {{k * step, T - k * step} : k \in 1..(T \div (2 * step))}

\* C28: a symmetric time directive with quantity q and unit u walks in steps of
\* q times the unit's milliseconds: its offsets are k*q*unitMs and
\* T - k*q*unitMs for k = 1, 2, ... while k*q*unitMs <= T/2
C28_SymmetricStepInUnit ==
    (dom = "connected" /\ say \in UnitSays) =>
        LET token == say[1]
            step  == DigitVal(token[1]) * UnitMs(token[2])
            marks == SymmetricOffsets(step, initialMilliseconds)
        IN  /\ OffsetsOf(getTimeOffsetAndMessage(IntervalOf(MatchToken(token)),
                                                 initialMilliseconds)) = marks
            /\ OffsetsOf(sayIntervals) \subseteq marks

\* C29: a token that is a number N written without unit or keyword is read as
\* quantity N in seconds: the whole written number is the quantity, for every
\* N >= 1
C29_BareNumberIsQuantity ==
    (dom = "connected" /\ say \in BareSays) =>
        LET token    == say[1]
            N        == parseInt(token, 1, Len(token))
            interval == IntervalOf(MatchToken(token))
        IN  /\ MatchToken(token).ok
            /\ interval.time = N
            /\ UnitMs(interval.unit) = 1000
            /\ OffsetsOf(sayIntervals) \subseteq SymmetricOffsets(N * 1000, initialMilliseconds)

\* n of a unit in words: the empty sequence for none, else "n unit" or "n units"
Component(n, word) ==
    IF n = 0 THEN <<>> ELSE << toString(n) \o " " \o word \o Plural(n) >>

\* the members of a sequence of texts, joined by ", "
RECURSIVE CommaJoined(_)
CommaJoined(parts) ==
    IF parts = <<>> THEN ""
    ELSE IF Len(parts) = 1 THEN parts[1]
    ELSE parts[1] \o ", " \o CommaJoined(Tail(parts))

\* the non-zero hours, minutes and seconds of an offset, largest first
TimeWords(offset) ==
    LET total == MathRound(offset, 1000)
    IN  CommaJoined(Component(total \div 3600, "hour")
                    \o Component((total % 3600) \div 60, "minute")
                    \o Component(total % 60, "second"))

\* C30: for an offset of 20000 ms or more the time message names each non-zero
\* component among hours, minutes and seconds, largest first and joined by
\* commas, in the plural when it is greater than 1, and ends in the suffix; the
\* components add up to the offset in whole seconds
C30_MessageNamesEveryComponent ==
    (dom = "connected" /\ say \in MessageSays) =>
        LET token  == say[1]
            offset == parseInt(token, 5, Len(token)) * 1000
        IN  sayIntervals = << Announcement(offset, TimeWords(offset) \o suffixes.last) >>

\* C31: every announcement a fraction directive places at half the duration,
\* by the directive "1/2" or by a mark within 5000 ms of the half that is
\* collapsed onto it, carries the one half-way phrase suffixes.half
C31_OneHalfWayPhrase ==
    dom = "connected" =>
        \A a \in RangeOf(FractionKind(say, initialMilliseconds)) :
            a.offset = initialMilliseconds \div 2 => a.message = suffixes.half

\* C32: building the schedule again from the same notation, duration and
\* priority gives the same announcements in the same order: after every reset
\* and restart click the canonical schedule is what a rebuild gives, and the
\* working schedule of the next run is identical to it, as it was for the
\* first run
C32_ResetRestoresTheSchedule ==
    [][(ResetClick \/ RestartClick) =>
          /\ sayIntervals' = sayIntervals
          /\ workingIntervals' = sayIntervals
          /\ workingIntervals' =
                parseRawIntervals(say, initialMilliseconds, config.priority)]_vars

\* C32 witness: the timer was reset during a run that had emitted its first
\* announcement, and the working schedule is the whole schedule again
C32_Witness ==
    /\ clicks >= 2
    /\ endTime = 0
    /\ ~play
    /\ Len(sayIntervals) = 3
    /\ workingIntervals = sayIntervals
    /\ \E i \in 1..Len(sink) : sink[i].text = sayIntervals[1].message

\* C33: between two resets endPlaying() is performed at most once: a step that
\* performs it starts in a state that is not finished, that is, no end was
\* performed since the last reset
C33_EndsOncePerRun ==
    [][endPlayed' # endPlayed => ~finished]_vars

(***************************************************************************)
(* A timer that is started once and left alone, with ticks at the default  *)
(* cadence                                                                 *)
(***************************************************************************)
\* the time between two ticks: intervalTime, or half of it
Cadence == {intervalTime \div 2, intervalTime}

\* "1/4 first1 allLast10" and "1/8 allLast10"
CadenceSays ==
    { << <<"1", "/", "4">>, <<"f", "i", "r", "s", "t", "1">>, AllLast10 >>,
      << <<"1", "/", "8">>, AllLast10 >> }

\* timers of 12 and 21 seconds, with and without the start text
CadenceAttrs ==
    {Attributes(time, TRUE, sayAttr, [NoFlags EXCEPT !.saystart = a]) :
        time \in { <<"1", "2">>, <<"2", "1">> }, sayAttr \in CadenceSays,
        a \in BOOLEAN}

ConnectCadence ==
    /\ dom = "constructed"
    /\ \E attrs \in CadenceAttrs : Becomes(connectedCallback(Cur, attrs))

\* the one click on the play/pause button
StartOnce ==
    /\ clicks = 0
    /\ StartClick

\* the repeating timer calls progressTickTock, no more than intervalTime after
\* the event before
TickInCadence ==
    /\ intervals # {}
    /\ endPlayed < MaxEnds
    /\ \E d \in Cadence :
          \E s \in {[Cur EXCEPT !.now = @ + d]} : Becomes(progressTickTock(s))

\* while no repeating timer is live, time passes until the next one-shot timer
\* is due
Wait ==
    /\ intervals = {}
    /\ timeouts # {}
    /\ \A t \in timeouts : now < t.due
    /\ \E t \in timeouts :
          /\ \A u \in timeouts : t.due <= u.due
          /\ now' = t.due
    /\ UNCHANGED << initialValue, currentValue, endTime, initialMilliseconds,
                    remainingMilliseconds, config, play, progressTicker, say,
                    sayIntervals, workingIntervals, endText, startText, finished,
                    dom, listening, intervals, timeouts, sink, clicks, endPlayed,
                    endDelays >>

NextCadence ==
    \/ ConnectCadence
    \/ StartOnce
    \/ TickInCadence
    \/ Timeout
    \/ Wait

SpecCadence ==
    /\ Init
    /\ [][NextCadence]_vars
    /\ WF_vars(TickInCadence)
    /\ WF_vars(Timeout)
    /\ WF_vars(Wait)

\* the texts of the announcements handed to the speech sink so far, in order
Announced ==
    LET IsAnnouncement(e) == e.kind = "say" /\ e.text \notin {endText, startText}
        said == SelectSeq(sink, IsAnnouncement)
    IN  [i \in 1..Len(said) |-> said[i].text]

\* the messages of the first n announcements of the schedule
MessagesOf(schedule, n) == [i \in 1..n |-> schedule[i].message]

\* C34: a timer that is started and then neither paused nor reset, with ticks
\* no more than 20 ms apart: every announcement that was popped was emitted, in
\* the order of the schedule (descending offsets), none was dropped as stale;
\* each is emitted while the remaining time is within 2000 ms of its offset;
\* and the run ends finished with the whole schedule emitted
C34_EveryAnnouncementIsSpoken ==
    /\ [](dom = "connected" =>
            /\ IsSuffix(workingIntervals, sayIntervals)
            /\ Announced = MessagesOf(sayIntervals,
                                      Len(sayIntervals) - Len(workingIntervals))
            /\ finished => workingIntervals = <<>>)
    /\ [][EmitsAnnouncement =>
            posMinus(Head(workingIntervals).offset, remainingMilliseconds')
                < StaleAfter]_vars
    /\ (clicks = 1 ~> (finished /\ Announced = MessagesOf(sayIntervals, Len(sayIntervals))))

\* C34 witness: a finished run of the 21 second timer with the start text: all
\* fifteen announcements of "1/8 allLast10" were spoken
C34_Witness ==
    /\ finished
    /\ config.sayStart
    /\ initialMilliseconds = 21000
    /\ Len(sayIntervals) = 15
    /\ Len(Announced) = 15

\* C35: a timer whose duration is 10000 ms or less never leaves Idle: no click
\* handler is attached, no click is handled, no repeating or one-shot timer is
\* set, nothing is said or chimed and endPlaying() is never performed
C35_ShortTimerStaysIdle ==
    (dom = "connected" /\ initialMilliseconds <= 10000) =>
        /\ ~listening
        /\ clicks = 0
        /\ intervals = {}
        /\ progressTicker = NoTimer
        /\ timeouts = {}
        /\ ~play
        /\ endTime = 0
        /\ remainingMilliseconds = initialMilliseconds
        /\ ~finished
        /\ sink = <<>>
        /\ endPlayed = 0

\* C35 witness: a 10 second timer with announcements in its schedule, some
\* time after it was connected
C35_Witness ==
    /\ dom = "connected"
    /\ initialMilliseconds = 10000
    /\ sayIntervals # <<>>
    /\ now > Epoch

\* C36: for a directive with every and last, whatever the duration, each
\* offset it generates is a positive whole multiple of its cadence, quantity
\* times the unit's milliseconds: the announcements are counted back from the
\* end of the countdown
C36_EveryLastCountsFromTheEnd ==
    (dom = "connected" /\ say \in EverySays) =>
        LET interval == IntervalOf(MatchToken(say[1]))
            cadence  == interval.time * UnitMs(interval.unit)
        IN  /\ interval.every /\ interval.relative = "last"
            /\ \A o \in OffsetsOf(sayIntervals) : o > 0 /\ o % cadence = 0

\* C37: a time directive written with a multiplier greater than 1 and first or
\* last, without all or every, contributes no announcement: it generates none,
\* and the schedule is the one of the rest of the notation.  A multiplier
\* written on a directive without first or last is set to 0 by the parser
C37_MultipliedDirectiveIsSilent ==
    /\ (dom = "connected" /\ say \in MultiplierSays) =>
          LET interval == IntervalOf(MatchToken(say[1]))
          IN  /\ interval.multiplier > 1
              /\ interval.relative # ""
              /\ ~interval.all /\ ~interval.every /\ ~interval.isFraction
              /\ getTimeOffsetAndMessage(interval, initialMilliseconds) = <<>>
              /\ \A time \in {1, 2, 10, 59, 590}, unit \in {"s", "m", "h", ""},
                    multiplier \in {2, 3, 9}, relative \in {"first", "last"} :
                    getTimeOffsetAndMessage(
                        [interval EXCEPT !.time = time, !.unit = unit,
                                         !.multiplier = multiplier,
                                         !.relative = relative],
                        initialMilliseconds) = <<>>
              /\ sayIntervals = parseRawIntervals(Tail(say), initialMilliseconds,
                                                  config.priority)
    /\ (dom = "connected" /\ say \in UnanchoredSays) =>
          /\ MatchToken(say[1]).g2 \notin {Undefined, 0}
          /\ IntervalOf(MatchToken(say[1])).relative = ""
          /\ IntervalOf(MatchToken(say[1])).multiplier = 0

\* C37 witness: "3last10s 1/2" on the three minute timer: the schedule is the
\* half-way announcement alone
C37_Witness ==
    /\ dom = "connected"
    /\ say \in MultiplierSays
    /\ Len(say) = 2
    /\ initialMilliseconds = 180000
    /\ OffsetsOf(sayIntervals) = {90000}

\* "1/3" "1/4": a symmetric fraction directive on its own
ThirdsAndQuarters == { << <<"1", "/", "3">> >>, << <<"1", "/", "4">> >> }

\* C38: for a symmetric fraction directive 1/D an announcement "a/D to go" is
\* at the offset where the fraction a/D of the duration remains, a * T / D, and
\* an announcement "a/D gone" at the offset where a/D of it has elapsed,
\* T - a * T / D
C38_FractionNamesItsOffset ==
    (dom = "connected" /\ say \in ThirdsAndQuarters) =>
        LET D == MatchToken(say[1]).g7
            T == initialMilliseconds
        IN  \A i \in 1..Len(sayIntervals), a \in 1..(D - 1) :
                /\ sayIntervals[i].message = makeFractionMessage(a, D) \o suffixes.last
                      => sayIntervals[i].offset = a * (T \div D)
                /\ sayIntervals[i].message = makeFractionMessage(a, D) \o suffixes.first
                      => sayIntervals[i].offset = T - a * (T \div D)

\* C39: after every successful duration parse, on the HH:MM:SS path and on the
\* path of a bare count of seconds, the stored components and the stored
\* milliseconds describe the same duration: initialValue converted to
\* milliseconds is initialMilliseconds, and the reset that ends the parse leaves
\* currentValue and the remaining time at that duration
C39_ComponentsMatchMilliseconds ==
    [][\A attrs \in TimeAttrs :
          (/\ dom = "constructed"
           /\ MatchDuration(attrs.time).ok
           /\ Cur' = connectedCallback(Cur, attrs))
          => /\ initialValue'.hours # NaN
             /\ timeObjToMilliseconds(initialValue') = initialMilliseconds'
             /\ currentValue' = initialValue'
             /\ remainingMilliseconds' = initialMilliseconds']_vars

=========================================================================
